---- MODULE Spec2Model ----
(***************************************************************************)
(* Verification model of the cuttlefish host launcher.                     *)
(*                                                                         *)
(*   Part I   host/commands/run_cvd/launch.cc: the command sources of the  *)
(*            launcher (one Commands() per service), the registration      *)
(*            order of launchComponent and LaunchKernelLogMonitor.         *)
(*   Part II  host/commands/bt_connector/main.cpp: the bluetooth bridge    *)
(*            (main, openSocket, the guest_to_host and host_to_guest       *)
(*            threads) together with its environment (guest and peer).     *)
(*                                                                         *)
(* Spec        is the launcher (Part I),                                   *)
(* SpecBridge  is the bridge (Part II),                                    *)
(* SpecBridgeFair is the bridge with fairly scheduled threads.             *)
(***************************************************************************)
EXTENDS Integers, Sequences, FiniteSets, TLC

VARIABLES
  \* ---- Part I: launcher ----
  cfg,        \* the configuration view read by the command sources
  fs,         \* paths that exist in the instance directory
  bound,      \* vsock ports with a listener
  fds,        \* descriptors open in the launcher: records [fd, obj, id]
  pc,         \* phase of the launch: start, compose, done, klm_done, exited
  idx,        \* index of the next command source in registration order
  cmds,       \* the commands collected so far, in registration order
  exitCode,   \* the RunnerExitCodes member passed to exit(), or NoExit
  lastSvc,    \* the function that ran last
  lastOps,    \* the resource operations that call made, in order
  lastRet,    \* the commands that call returned
  lastPipes,  \* the read ends LaunchKernelLogMonitor returned
  lastN,      \* the number_of_event_pipes of the last LaunchKernelLogMonitor
  lastPre,    \* fs, bound and fds as they were when that call started
  faults,     \* operating system failures that happened so far
  launch,     \* number of the launch (1 = first run of the launcher)
  prev,       \* outcome of the previous launch: [done, cmds]
  startFs,    \* fs as it was when this launch started
  \* ---- Part II: bridge ----
  bpc,        \* program counter of main, guest_to_host, host_to_guest
  mutex,      \* holder of the static mutex of openSocket, or NoThread
  sock,       \* the shared SharedFD sock: state of the handle
  tmp,        \* per thread: result of SocketLocalClient before the assignment
  stale,      \* sock was replaced while host_to_guest was inside sock->Read
  peerUp,     \* the peer accepts connections
  peerFailures, \* how often the peer closed so far
  btIn,       \* chunks written by the guest and not yet read from bt_in
  guestSent,  \* number of chunks the guest wrote so far
  inflight,   \* chunks sent by the peer on the connection of sock, unread
  peerSent,   \* number of chunks the peer sent so far
  buf,        \* per direction: the chunk in the staging buffer (0 = empty)
  peerRecv,   \* chunks the peer received, in order
  btOut,      \* chunks written to bt_out, in order
  lastIO,     \* per thread: result of its last I/O on sock
  attempts,   \* per thread: connect attempts since its last I/O on sock
  bexit,      \* exit code of the bridge process, or NoExit
  btFds,      \* the pipe descriptors of the bridge: [flag, dup] per pipe
  \* ---- Part III: streaming front end ----
  fpc,        \* position of main: idle, accept, spawn, setup, register, ...
  initial,    \* what the initial accepts of main returned, in order
  accepters,  \* the endpoints whose acceptor thread runs
  slot,       \* input_sockets.<endpoint>_client
  backlog,    \* clients that connected to a listener and wait for accept
  clients,    \* number of clients that connected so far
  acceptFailures, \* accepts that failed so far
  registered, \* the streamer registered with the operator
  lastAccept, \* the accept that returned last: [ep, by, result]
  \* ---- Part IV: composer ----
  screen,     \* the ScreenView: [acquires, presents, acquired]
  calls,      \* number of calls made on the composer so far
  lastCall    \* the last call: [fn, layers, pre, posted, handles, steps, ret]

launchVars == <<cfg, fs, bound, fds, pc, idx, cmds, exitCode, lastSvc, lastOps,
                lastRet, lastPipes, lastN, lastPre, faults, launch, prev,
                startFs>>
bridgeVars == <<bpc, mutex, sock, tmp, stale, peerUp, peerFailures, btIn,
                guestSent, inflight, peerSent, buf, peerRecv, btOut, lastIO,
                attempts, bexit, btFds>>
frontVars == <<fpc, initial, accepters, slot, backlog, clients,
               acceptFailures, registered, lastAccept>>
composerVars == <<screen, calls, lastCall>>
restVars == <<frontVars, composerVars>>
vars == <<launchVars, bridgeVars, restVars>>

(***************************************************************************)
(* Bounds of the model.                                                    *)
(***************************************************************************)
MaxFaults == 1        \* injected operating system failures per behaviour
MaxPipes == 2         \* largest number_of_event_pipes tried
MaxLaunches == 2      \* launches of the launcher on the same instance dir
MaxPeerFailures == 2  \* times the peer closes its endpoint
MaxChunks == 2        \* chunks the guest writes; chunks the peer sends
MaxClients == 4       \* clients that connect to the input listeners
MaxAcceptFailures == 1 \* accepts of the front end that fail
MaxLayers == 2        \* largest num_layers tried
MaxCalls == 2         \* calls made on the composer

(***************************************************************************)
(* Part I.  launch.cc                                                      *)
(***************************************************************************)

\* ---- descriptors and command lines --------------------------------------
NoExit == "none"
BadFd == 0 - 1     \* a SharedFD that is not open
NoFd == 0 - 2      \* marks a part of a parameter that is text, not a descriptor

\* The lowest descriptor number that is free (0, 1, 2 are the standard streams).
FreeFd(F) ==
  LET used == {x.fd : x \in F}
  IN CHOOSE n \in 3..(3 + Cardinality(F)) :
       /\ n \notin used
       /\ \A m \in 3..(n - 1) : m \in used

\* A parameter is a sequence of parts: text, or a descriptor reference.
Txt(s) == [s |-> s, fd |-> NoFd]
Ref(n) == [s |-> "", fd |-> n]

NewCommand(bin) == [bin |-> bin, args |-> <<>>]
AddParameter(c, parts) == [c EXCEPT !.args = Append(@, parts)]
AppendToLastParameter(c, part) ==
  [c EXCEPT !.args[Len(c.args)] = Append(@, part)]

\* ---- the operating system, as one call of a command source sees it ------
\* s.n counts the calls that can fail for an outside reason; the call number
\* s.fault (0: none) fails that way.
Op(o, p, ok) == [op |-> o, path |-> p, ok |-> ok]

Start(fault) ==
  [fs |-> fs, bound |-> bound, fds |-> fds, ops |-> <<>>, n |-> 0,
   fault |-> fault, hit |-> FALSE, ok |-> TRUE, fd |-> BadFd, fd2 |-> BadFd,
   npipes |-> 0]

Fails(s) == s.fault = s.n + 1

\* unlink(path): the result is ignored by every caller.
Unlink(s, p) ==
  [s EXCEPT !.fs = @ \ {p},
            !.ops = Append(@, Op("unlink", p, p \in s.fs)),
            !.ok = p \in s.fs]

\* mkfifo(path, mode): EEXIST when the path exists.
Mkfifo(s, p) ==
  LET good == p \notin s.fs /\ ~Fails(s)
  IN [s EXCEPT !.n = @ + 1,
               !.hit = @ \/ (p \notin s.fs /\ Fails(s)),
               !.fs = IF good THEN @ \cup {p} ELSE @,
               !.ops = Append(@, Op("mkfifo", p, good)),
               !.ok = good]

\* mkdir(path, mode)
Mkdir(s, p) ==
  LET good == p \notin s.fs /\ ~Fails(s)
  IN [s EXCEPT !.n = @ + 1,
               !.hit = @ \/ (p \notin s.fs /\ Fails(s)),
               !.fs = IF good THEN @ \cup {p} ELSE @,
               !.ops = Append(@, Op("mkdir", p, good)),
               !.ok = good]

\* SharedFD::Open(path, O_RDWR): a fifo opened for reading and writing does
\* not block.
Open(s, p) ==
  LET good == p \in s.fs /\ ~Fails(s)
      f == FreeFd(s.fds)
  IN [s EXCEPT !.n = @ + 1,
               !.hit = @ \/ (p \in s.fs /\ Fails(s)),
               !.fds = IF good THEN @ \cup {[fd |-> f, obj |-> p, id |-> 0]}
                       ELSE @,
               !.ops = Append(@, Op("open", p, good)),
               !.ok = good,
               !.fd = IF good THEN f ELSE BadFd]

\* SharedFD::VsockServer(port, SOCK_STREAM): fails when the port is taken.
VsockServer(s, port) ==
  LET good == port \notin s.bound /\ ~Fails(s)
      f == FreeFd(s.fds)
  IN [s EXCEPT !.n = @ + 1,
               !.hit = @ \/ (port \notin s.bound /\ Fails(s)),
               !.bound = IF good THEN @ \cup {port} ELSE @,
               !.fds = IF good THEN @ \cup {[fd |-> f, obj |-> port, id |-> 0]}
                       ELSE @,
               !.ops = Append(@, Op("bind", port, good)),
               !.ok = good,
               !.fd = IF good THEN f ELSE BadFd]

\* SharedFD::Pipe(&read_end, &write_end): fd is the read end, fd2 the write end.
Pipe(s) ==
  LET good == ~Fails(s)
      r == FreeFd(s.fds)
      k == s.npipes + 1
      withR == s.fds \cup {[fd |-> r, obj |-> "pipe_r", id |-> k]}
      w == FreeFd(withR)
  IN [s EXCEPT !.n = @ + 1,
               !.hit = @ \/ Fails(s),
               !.npipes = IF good THEN k ELSE @,
               !.fds = IF good
                       THEN withR \cup {[fd |-> w, obj |-> "pipe_w", id |-> k]}
                       ELSE @,
               !.ops = Append(@, Op("pipe", "pipe", good)),
               !.ok = good,
               !.fd = IF good THEN r ELSE BadFd,
               !.fd2 = IF good THEN w ELSE BadFd]

\* ---- what a call hands back ----------------------------------------------
\* return {}: the SharedFDs the call opened go out of scope and are closed;
\* what it created in the file system stays.
ReturnEmpty(s) ==
  [s |-> [s EXCEPT !.fds = fds], cmds |-> <<>>, pipes |-> <<>>, exit |-> NoExit]

\* single_element_emplace(std::move(command))
single_element_emplace(s, c) ==
  [s |-> s, cmds |-> <<c>>, pipes |-> <<>>, exit |-> NoExit]

\* std::exit(code): the process ends, no command is returned.
Exit(s, code) ==
  [s |-> [s EXCEPT !.fds = {}, !.bound = {}], cmds |-> <<>>, pipes |-> <<>>,
   exit |-> code]

\* ---- LaunchKernelLogMonitor ----------------------------------------------
RECURSIVE EventPipesOneMore(_, _, _, _, _)
\* A slip: the loop runs for i <= number_of_event_pipes.
EventPipesOneMore(i, n, s, c, pipes) ==
  IF i > n THEN [s |-> s, c |-> c, pipes |-> pipes, exit |-> NoExit]
  ELSE LET s1 == Pipe(s)
       IN IF ~s1.ok
          THEN [s |-> s1, c |-> c, pipes |-> pipes, exit |-> "kPipeIOError"]
          ELSE LET c1 == IF i > 0 THEN AppendToLastParameter(c, Txt(","))
                         ELSE c
                   c2 == AppendToLastParameter(c1, Ref(s1.fd2))
               IN EventPipesOneMore(i + 1, n, s1, c2, Append(pipes, s1.fd))

RECURSIVE EventPipes(_, _, _, _, _)
\* for (i = 0; i < number_of_event_pipes; ++i) { ... }
EventPipes(i, n, s, c, pipes) ==
  IF i >= n THEN [s |-> s, c |-> c, pipes |-> pipes, exit |-> NoExit]
  ELSE LET s1 == Pipe(s)
       IN IF ~s1.ok
          THEN [s |-> s1, c |-> c, pipes |-> pipes, exit |-> "kPipeIOError"]
          ELSE LET c1 == IF i > 0 THEN AppendToLastParameter(c, Txt(","))
                         ELSE c
                   c2 == AppendToLastParameter(c1, Ref(s1.fd2))
               IN EventPipes(i + 1, n, s1, c2, Append(pipes, s1.fd))

LaunchKernelLogMonitor(s, n) ==
  LET s1 == Mkfifo(s, "kernel_log_pipe")
  IN IF ~s1.ok THEN ReturnEmpty(s1)
     ELSE
       LET s2 == Open(s1, "kernel_log_pipe")
           c0 == AddParameter(NewCommand("kernel_log_monitor"),
                              <<Txt("-log_pipe_fd="), Ref(s2.fd)>>)
       IN IF n > 0
          THEN LET e == EventPipes(0, n, s2,
                          AddParameter(c0, <<Txt("-subscriber_fds=")>>), <<>>)
               IN IF e.exit # NoExit THEN Exit(e.s, e.exit)
                  ELSE [s |-> e.s, cmds |-> <<e.c>>, pipes |-> e.pipes,
                        exit |-> NoExit]
          ELSE [s |-> s2, cmds |-> <<c0>>, pipes |-> <<>>, exit |-> NoExit]

\* ---- the command sources --------------------------------------------------
\* A slip: the positional port parameters are added in another order.
RootCanal_CommandsHciFirst(s) ==
  IF ~cfg.enable_host_bluetooth THEN ReturnEmpty(s)
  ELSE
    LET c1 == AddParameter(NewCommand("root-canal"), <<Txt("rootcanal_hci_port")>>)
        c2 == AddParameter(c1, <<Txt("rootcanal_test_port")>>)
        c3 == AddParameter(c2, <<Txt("rootcanal_link_port")>>)
        c4 == AddParameter(c3, <<Txt("--controller_properties_file="),
                                 Txt("rootcanal_config_file")>>)
        c5 == AddParameter(c4, <<Txt("--default_commands_file="),
                                 Txt("rootcanal_default_commands_file")>>)
    IN single_element_emplace(s, c5)

RootCanal_Commands(s) ==
  IF ~cfg.enable_host_bluetooth THEN ReturnEmpty(s)
  ELSE
    LET c1 == AddParameter(NewCommand("root-canal"), <<Txt("rootcanal_test_port")>>)
        c2 == AddParameter(c1, <<Txt("rootcanal_hci_port")>>)
        c3 == AddParameter(c2, <<Txt("rootcanal_link_port")>>)
        c4 == AddParameter(c3, <<Txt("--controller_properties_file="),
                                 Txt("rootcanal_config_file")>>)
        c5 == AddParameter(c4, <<Txt("--default_commands_file="),
                                 Txt("rootcanal_default_commands_file")>>)
    IN single_element_emplace(s, c5)

LogcatReceiver_Commands(s) ==
  LET s1 == Mkfifo(s, "logcat_pipe")
  IN IF ~s1.ok THEN ReturnEmpty(s1)
     ELSE LET s2 == Open(s1, "logcat_pipe")
          IN single_element_emplace(s2,
               AddParameter(NewCommand("logcat_receiver"),
                            <<Txt("-log_pipe_fd="), Ref(s2.fd)>>))

ConfigServer_Commands(s) ==
  LET s1 == VsockServer(s, "config_server_port")
  IN IF ~s1.ok THEN Exit(s1, "kConfigServerError")
     ELSE single_element_emplace(s1,
            AddParameter(NewCommand("config_server"),
                         <<Txt("-server_fd="), Ref(s1.fd)>>))

\* A slip: the directory failure exits with the code of the bind failure.
TombstoneDirFailureAsServer == "kTombstoneServerError"

\* std::exit(RunnerExitCodes::kTombstoneDirCreationError)
TombstoneDirFailure == "kTombstoneDirCreationError"

\* A slip: the directory is taken to be absent.
DirectoryExistsNever(s, p) == FALSE

\* DirectoryExists(path)
DirectoryExists(s, p) == p \in s.fs

\* A slip: the listener is bound before the directory is looked at.
TombstoneReceiver_CommandsBindsFirst(s) ==
  LET s2 == VsockServer(s, "tombstone_receiver_port")
      s1 == IF ~DirectoryExists(s2, "tombstones") THEN Mkdir(s2, "tombstones")
            ELSE [s2 EXCEPT !.ok = TRUE]
  IN IF ~s2.ok THEN Exit(s2, "kTombstoneServerError")
     ELSE IF ~s1.ok THEN Exit(s1, TombstoneDirFailure)
     ELSE LET c1 == AddParameter(NewCommand("tombstone_receiver"),
                                 <<Txt("-server_fd="), Ref(s2.fd)>>)
              c2 == AddParameter(c1, <<Txt("-tombstone_dir="),
                                       Txt("tombstones")>>)
          IN single_element_emplace(s1, c2)

TombstoneReceiver_Commands(s) ==
  LET s1 == IF ~DirectoryExists(s, "tombstones") THEN Mkdir(s, "tombstones")
            ELSE [s EXCEPT !.ok = TRUE]
  IN IF ~s1.ok THEN Exit(s1, TombstoneDirFailure)
     ELSE LET s2 == VsockServer(s1, "tombstone_receiver_port")
          IN IF ~s2.ok THEN Exit(s2, "kTombstoneServerError")
             ELSE LET c1 == AddParameter(NewCommand("tombstone_receiver"),
                                         <<Txt("-server_fd="), Ref(s2.fd)>>)
                      c2 == AddParameter(c1, <<Txt("-tombstone_dir="),
                                               Txt("tombstones")>>)
                  IN single_element_emplace(s2, c2)

MetricsService_Commands(s) ==
  IF ~cfg.enable_metrics THEN ReturnEmpty(s)
  ELSE single_element_emplace(s, NewCommand("metrics"))

\* A slip: the check that the binary exists is left out.
GnssGrpcProxyServer_SkipsOnFlagOnly == ~cfg.enable_gnss_grpc_proxy

\* if (!config_.enable_gnss_grpc_proxy() || !FileExists(GnssGrpcProxyBinary()))
GnssGrpcProxyServer_Skips ==
  ~cfg.enable_gnss_grpc_proxy \/ ~cfg.gnss_grpc_proxy_binary

GnssGrpcProxyServer_Commands(s) ==
  IF GnssGrpcProxyServer_Skips
  THEN ReturnEmpty(s)
  ELSE
    LET s1 == Mkfifo(s, "gnss_in_pipe")
    IN IF ~s1.ok THEN ReturnEmpty(s1) ELSE
    LET s2 == Mkfifo(s1, "gnss_out_pipe")
    IN IF ~s2.ok THEN ReturnEmpty(s2) ELSE
    LET s3 == Open(s2, "gnss_in_pipe")
    IN IF ~s3.ok THEN ReturnEmpty(s3) ELSE
    LET s4 == Open(s3, "gnss_out_pipe")
    IN IF ~s4.ok THEN ReturnEmpty(s4) ELSE
    LET c1 == AddParameter(NewCommand("gnss_grpc_proxy"),
                           <<Txt("--gnss_in_fd="), Ref(s3.fd)>>)
        c2 == AddParameter(c1, <<Txt("--gnss_out_fd="), Ref(s4.fd)>>)
        c3 == AddParameter(c2, <<Txt("--gnss_grpc_port="),
                                 Txt("gnss_grpc_proxy_server_port")>>)
        c4 == IF cfg.gnss_file_path
              THEN AddParameter(c3, <<Txt("--gnss_file_path="),
                                      Txt("gnss_file_path")>>)
              ELSE c3
    IN single_element_emplace(s4, c4)

\* A slip: the two paths are listed in the other order.
BtFifoPathsOutFirst == <<"bt_fifo_vm.out", "bt_fifo_vm.in">>

BtFifoPaths == <<"bt_fifo_vm.in", "bt_fifo_vm.out">>

\* A slip: both fifos are created before the first is opened.
BtFifoLoopCreatesFirst(i, s, fifos) ==
  LET a == Mkfifo(Unlink(s, BtFifoPaths[1]), BtFifoPaths[1])
      b == Mkfifo(Unlink(a, BtFifoPaths[2]), BtFifoPaths[2])
      c == Open(b, BtFifoPaths[1])
      d == Open(c, BtFifoPaths[2])
  IN IF ~a.ok THEN [s |-> a, fifos |-> fifos, ok |-> FALSE]
     ELSE IF ~b.ok THEN [s |-> b, fifos |-> fifos, ok |-> FALSE]
     ELSE IF ~c.ok THEN [s |-> c, fifos |-> fifos, ok |-> FALSE]
     ELSE IF ~d.ok THEN [s |-> d, fifos |-> fifos, ok |-> FALSE]
     ELSE [s |-> d, fifos |-> <<c.fd, d.fd>>, ok |-> TRUE]

RECURSIVE BtFifoLoop(_, _, _)
\* for (const auto& path : fifo_paths) { unlink; mkfifo; Open; push_back }
BtFifoLoop(i, s, fifos) ==
  IF i > Len(BtFifoPaths) THEN [s |-> s, fifos |-> fifos, ok |-> TRUE]
  ELSE LET s1 == Unlink(s, BtFifoPaths[i])
           s2 == Mkfifo(s1, BtFifoPaths[i])
       IN IF ~s2.ok THEN [s |-> s2, fifos |-> fifos, ok |-> FALSE]
          ELSE LET s3 == Open(s2, BtFifoPaths[i])
               IN IF ~s3.ok THEN [s |-> s3, fifos |-> fifos, ok |-> FALSE]
                  ELSE BtFifoLoop(i + 1, s3, Append(fifos, s3.fd))

\* A slip: the test of the flag is left out.
BluetoothConnector_NeverSkips == FALSE

\* if (!config_.enable_host_bluetooth()) return {};
BluetoothConnector_Skips == ~cfg.enable_host_bluetooth

BluetoothConnector_Commands(s) ==
  IF BluetoothConnector_Skips THEN ReturnEmpty(s)
  ELSE
    LET l == BtFifoLoop(1, s, <<>>)
    IN IF ~l.ok THEN ReturnEmpty(l.s)
       ELSE
         LET c1 == AddParameter(NewCommand("bt_connector"),
                                <<Txt("-bt_out="), Ref(l.fifos[1])>>)
             c2 == AddParameter(c1, <<Txt("-bt_in="), Ref(l.fifos[2])>>)
             c3 == AddParameter(c2, <<Txt("-hci_port="),
                                      Txt("rootcanal_hci_port")>>)
             c4 == AddParameter(c3, <<Txt("-link_port="),
                                      Txt("rootcanal_link_port")>>)
             c5 == AddParameter(c4, <<Txt("-test_port="),
                                      Txt("rootcanal_test_port")>>)
         IN single_element_emplace(l.s, c5)

SecureFifoPaths ==
  <<"keymaster_fifo_vm.in", "keymaster_fifo_vm.out",
    "gatekeeper_fifo_vm.in", "gatekeeper_fifo_vm.out">>

RECURSIVE SecureFifoLoopGoesOn(_, _, _)
\* A slip: a failed mkfifo is logged and the loop goes on to the next path.
SecureFifoLoopGoesOn(i, s, fifos) ==
  IF i > Len(SecureFifoPaths)
  THEN [s |-> s, fifos |-> fifos, ok |-> Len(fifos) = Len(SecureFifoPaths)]
  ELSE LET s1 == Unlink(s, SecureFifoPaths[i])
           s2 == Mkfifo(s1, SecureFifoPaths[i])
       IN IF ~s2.ok THEN SecureFifoLoopGoesOn(i + 1, s2, fifos)
          ELSE LET s3 == Open(s2, SecureFifoPaths[i])
               IN IF ~s3.ok THEN [s |-> s3, fifos |-> fifos, ok |-> FALSE]
                  ELSE SecureFifoLoopGoesOn(i + 1, s3, Append(fifos, s3.fd))

RECURSIVE SecureFifoLoop(_, _, _)
\* for (const auto& path : fifo_paths) { unlink; mkfifo; Open; push_back }
SecureFifoLoop(i, s, fifos) ==
  IF i > Len(SecureFifoPaths) THEN [s |-> s, fifos |-> fifos, ok |-> TRUE]
  ELSE LET s1 == Unlink(s, SecureFifoPaths[i])
           s2 == Mkfifo(s1, SecureFifoPaths[i])
       IN IF ~s2.ok THEN [s |-> s2, fifos |-> fifos, ok |-> FALSE]
          ELSE LET s3 == Open(s2, SecureFifoPaths[i])
               IN IF ~s3.ok THEN [s |-> s3, fifos |-> fifos, ok |-> FALSE]
                  ELSE SecureFifoLoop(i + 1, s3, Append(fifos, s3.fd))

SecureEnvironment_Commands(s) ==
  LET l == SecureFifoLoop(1, s, <<>>)
  IN IF ~l.ok THEN ReturnEmpty(l.s)
     ELSE
       LET c1 == AddParameter(NewCommand("secure_env"),
                              <<Txt("-keymaster_fd_out="), Ref(l.fifos[1])>>)
           c2 == AddParameter(c1, <<Txt("-keymaster_fd_in="), Ref(l.fifos[2])>>)
           c3 == AddParameter(c2, <<Txt("-gatekeeper_fd_out="), Ref(l.fifos[3])>>)
           c4 == AddParameter(c3, <<Txt("-gatekeeper_fd_in="), Ref(l.fifos[4])>>)
           c5 == AddParameter(c4, <<Txt("-keymint_impl="), Txt("keymint_impl")>>)
           c6 == AddParameter(c5, <<Txt("-gatekeeper_impl="),
                                    Txt("gatekeeper_impl")>>)
       IN single_element_emplace(l.s, c6)

VehicleHalServer_Commands(s) ==
  IF ~cfg.enable_vehicle_hal_grpc_server \/ ~cfg.vehicle_hal_grpc_server_binary
  THEN ReturnEmpty(s)
  ELSE
    LET c1 == AddParameter(NewCommand("vehicle_hal_grpc_server"),
                           <<Txt("--server_cid="), Txt("2")>>)
        c2 == AddParameter(c1, <<Txt("--server_port="),
                                 Txt("vehicle_hal_server_port")>>)
        c3 == AddParameter(c2, <<Txt("--power_state_file="),
                                 Txt("power_state")>>)
        c4 == AddParameter(c3, <<Txt("--power_state_socket="),
                                 Txt("power_state_socket")>>)
    IN single_element_emplace(s, c4)

ConsoleForwarder_Commands(s) ==
  IF ~cfg.console THEN ReturnEmpty(s)
  ELSE
    LET s1 == Mkfifo(s, "console_in_pipe")
    IN IF ~s1.ok THEN ReturnEmpty(s1) ELSE
    LET s2 == Mkfifo(s1, "console_out_pipe")
    IN IF ~s2.ok THEN ReturnEmpty(s2) ELSE
    LET s3 == Open(s2, "console_in_pipe")
    IN IF ~s3.ok THEN ReturnEmpty(s3) ELSE
    LET s4 == Open(s3, "console_out_pipe")
    IN IF ~s4.ok THEN ReturnEmpty(s4) ELSE
    LET c1 == AddParameter(NewCommand("console_forwarder"),
                           <<Txt("--console_in_fd="), Ref(s3.fd)>>)
        c2 == AddParameter(c1, <<Txt("--console_out_fd="), Ref(s4.fd)>>)
    IN single_element_emplace(s4, c2)

\* ---- launchComponent: the registration order ------------------------------
\* A slip: two multibindings are registered in the other order.
SourcesSwapped ==
  <<"ConfigServer", "ConsoleForwarder", "BluetoothConnector",
    "GnssGrpcProxyServer", "MetricsService", "LogcatReceiver", "RootCanal",
    "SecureEnvironment", "TombstoneReceiver", "VehicleHalServer">>

\* launchComponent: the multibindings in the order of registration.
Sources ==
  <<"ConfigServer", "ConsoleForwarder", "BluetoothConnector",
    "GnssGrpcProxyServer", "LogcatReceiver", "MetricsService", "RootCanal",
    "SecureEnvironment", "TombstoneReceiver", "VehicleHalServer">>

NumSources == Len(Sources)

\* The number of calls of a source that can fail for an outside reason.
FaultPoints ==
  [ConfigServer |-> 1, ConsoleForwarder |-> 4, BluetoothConnector |-> 4,
   GnssGrpcProxyServer |-> 4, LogcatReceiver |-> 2, MetricsService |-> 0,
   RootCanal |-> 0, SecureEnvironment |-> 8, TombstoneReceiver |-> 2,
   VehicleHalServer |-> 0]

FaultChoices(k) == IF faults < MaxFaults THEN 0..k ELSE {0}

\* The launcher takes what a call handed back: a command source's commands are
\* appended to the list; exit() ends the launch.
Take(name, r, n) ==
  /\ lastSvc' = name
  /\ lastOps' = r.s.ops
  /\ lastRet' = r.cmds
  /\ lastPipes' = r.pipes
  /\ lastN' = n
  /\ lastPre' = [fs |-> fs, bound |-> bound, fds |-> fds]
  /\ faults' = IF r.s.hit THEN faults + 1 ELSE faults
  /\ fs' = r.s.fs
  /\ bound' = r.s.bound
  /\ fds' = r.s.fds
  /\ exitCode' = r.exit
  /\ UNCHANGED <<cfg, launch, prev, startFs>>

Compose(name, r) ==
  /\ Take(name, r, 0)
  /\ IF r.exit # NoExit
     THEN pc' = "exited" /\ cmds' = <<>> /\ idx' = idx
     ELSE /\ cmds' = cmds \o r.cmds
          /\ idx' = idx + 1
          /\ pc' = IF idx = NumSources THEN "done" ELSE "compose"

\* The place of a command source in the registration order.
Position(name) == CHOOSE k \in 1..NumSources : Sources[k] = name

At(k) == pc = (IF k = 1 THEN "start" ELSE "compose") /\ idx = k

ConfigServerStep ==
  /\ At(Position("ConfigServer"))
  /\ \E f \in FaultChoices(FaultPoints.ConfigServer) :
       Compose("ConfigServer", ConfigServer_Commands(Start(f)))
  /\ UNCHANGED <<bridgeVars, restVars>>

ConsoleForwarderStep ==
  /\ At(Position("ConsoleForwarder"))
  /\ \E f \in FaultChoices(FaultPoints.ConsoleForwarder) :
       Compose("ConsoleForwarder", ConsoleForwarder_Commands(Start(f)))
  /\ UNCHANGED <<bridgeVars, restVars>>

BluetoothConnectorStep ==
  /\ At(Position("BluetoothConnector"))
  /\ \E f \in FaultChoices(FaultPoints.BluetoothConnector) :
       Compose("BluetoothConnector", BluetoothConnector_Commands(Start(f)))
  /\ UNCHANGED <<bridgeVars, restVars>>

GnssGrpcProxyServerStep ==
  /\ At(Position("GnssGrpcProxyServer"))
  /\ \E f \in FaultChoices(FaultPoints.GnssGrpcProxyServer) :
       Compose("GnssGrpcProxyServer", GnssGrpcProxyServer_Commands(Start(f)))
  /\ UNCHANGED <<bridgeVars, restVars>>

LogcatReceiverStep ==
  /\ At(Position("LogcatReceiver"))
  /\ \E f \in FaultChoices(FaultPoints.LogcatReceiver) :
       Compose("LogcatReceiver", LogcatReceiver_Commands(Start(f)))
  /\ UNCHANGED <<bridgeVars, restVars>>

MetricsServiceStep ==
  /\ At(Position("MetricsService"))
  /\ Compose("MetricsService", MetricsService_Commands(Start(0)))
  /\ UNCHANGED <<bridgeVars, restVars>>

RootCanalStep ==
  /\ At(Position("RootCanal"))
  /\ Compose("RootCanal", RootCanal_Commands(Start(0)))
  /\ UNCHANGED <<bridgeVars, restVars>>

SecureEnvironmentStep ==
  /\ At(Position("SecureEnvironment"))
  /\ \E f \in FaultChoices(FaultPoints.SecureEnvironment) :
       Compose("SecureEnvironment", SecureEnvironment_Commands(Start(f)))
  /\ UNCHANGED <<bridgeVars, restVars>>

TombstoneReceiverStep ==
  /\ At(Position("TombstoneReceiver"))
  /\ \E f \in FaultChoices(FaultPoints.TombstoneReceiver) :
       Compose("TombstoneReceiver", TombstoneReceiver_Commands(Start(f)))
  /\ UNCHANGED <<bridgeVars, restVars>>

VehicleHalServerStep ==
  /\ At(Position("VehicleHalServer"))
  /\ Compose("VehicleHalServer", VehicleHalServer_Commands(Start(0)))
  /\ UNCHANGED <<bridgeVars, restVars>>

\* LaunchKernelLogMonitor(config, n), called by the launcher apart from the
\* registry; its command is returned in KernelLogMonitorData, not in the list.
KernelLogMonitorStep ==
  /\ pc = "start"
  /\ \E n \in 0..MaxPipes : \E f \in FaultChoices(n + 2) :
       LET r == LaunchKernelLogMonitor(Start(f), n)
       IN /\ Take("LaunchKernelLogMonitor", r, n)
          /\ pc' = IF r.exit # NoExit THEN "exited" ELSE "klm_done"
          /\ UNCHANGED <<cmds, idx>>
  /\ UNCHANGED <<bridgeVars, restVars>>

\* The launcher process has ended and is started again on the same instance
\* directory with the same configuration: what it held open is closed, what
\* it created in the file system is still there.
Relaunch ==
  /\ pc \in {"done", "exited", "klm_done"}
  /\ launch < MaxLaunches
  /\ launch' = launch + 1
  /\ prev' = [done |-> pc = "done", cmds |-> cmds]
  /\ pc' = "start" /\ idx' = 1 /\ cmds' = <<>>
  /\ fds' = {} /\ bound' = {}
  /\ exitCode' = NoExit
  /\ lastSvc' = "none" /\ lastOps' = <<>> /\ lastRet' = <<>>
  /\ lastPipes' = <<>> /\ lastN' = 0
  /\ lastPre' = [fs |-> fs, bound |-> {}, fds |-> {}]
  /\ startFs' = fs
  /\ UNCHANGED <<cfg, fs, faults>>
  /\ UNCHANGED <<bridgeVars, restVars>>

Configs ==
  [enable_host_bluetooth : BOOLEAN, enable_metrics : BOOLEAN,
   enable_gnss_grpc_proxy : BOOLEAN, gnss_grpc_proxy_binary : BOOLEAN,
   gnss_file_path : BOOLEAN,
   enable_vehicle_hal_grpc_server : BOOLEAN,
   vehicle_hal_grpc_server_binary : BOOLEAN, console : BOOLEAN]

\* The instance directory a launch can find: empty, or with the two fifos that
\* a run with bluetooth enabled leaves behind.
InstanceDirs == {{}, {BtFifoPaths[i] : i \in 1..Len(BtFifoPaths)}}

LaunchInit ==
  /\ cfg \in Configs
  /\ fs \in InstanceDirs /\ startFs = fs
  /\ bound = {} /\ fds = {}
  /\ pc = "start" /\ idx = 1 /\ cmds = <<>>
  /\ exitCode = NoExit
  /\ lastSvc = "none" /\ lastOps = <<>> /\ lastRet = <<>>
  /\ lastPipes = <<>> /\ lastN = 0
  /\ lastPre = [fs |-> fs, bound |-> {}, fds |-> {}]
  /\ faults = 0 /\ launch = 1
  /\ prev = [done |-> FALSE, cmds |-> <<>>]

\* The descriptors the launcher passed, before main has touched them.
Inherited ==
  [p \in {"bt_in", "bt_out"} |-> [flag |-> "open", dup |-> "none"]]

BridgeIdle ==
  /\ bpc = [t \in {"main", "g2h", "h2g"} |-> "idle"]
  /\ mutex = "none" /\ sock = "closed"
  /\ tmp = [t \in {"main", "g2h", "h2g"} |-> "closed"]
  /\ stale = FALSE /\ peerUp = FALSE /\ peerFailures = 0
  /\ btIn = <<>> /\ guestSent = 0 /\ inflight = <<>> /\ peerSent = 0
  /\ buf = [t \in {"g2h", "h2g"} |-> 0]
  /\ peerRecv = <<>> /\ btOut = <<>>
  /\ lastIO = [t \in {"main", "g2h", "h2g"} |-> "none"]
  /\ attempts = [t \in {"main", "g2h", "h2g"} |-> 0]
  /\ bexit = NoExit
  /\ btFds = Inherited

\* The streaming front end is another process; here it has not started.
Endpoints == {"touch", "keyboard", "switches"}
FrontendIdle ==
  /\ fpc = "idle" /\ initial = <<>> /\ accepters = {}
  /\ slot = [e \in Endpoints |-> 0]
  /\ backlog = [e \in Endpoints |-> <<>>]
  /\ clients = 0 /\ acceptFailures = 0 /\ registered = FALSE
  /\ lastAccept = [ep |-> "none", by |-> "none", result |-> 0]

\* BaseComposer::BaseComposer: nothing acquired, nothing presented.
ComposerInit ==
  /\ screen = [acquires |-> 0, presents |-> 0, acquired |-> FALSE]
  /\ calls = 0
  /\ lastCall = [fn |-> "none", layers |-> <<>>, pre |-> screen,
                 posted |-> <<>>, handles |-> <<>>, steps |-> <<>>,
                 ret |-> 0]

Init == LaunchInit /\ BridgeIdle /\ FrontendIdle /\ ComposerInit

Next ==
  \/ ConfigServerStep
  \/ ConsoleForwarderStep
  \/ BluetoothConnectorStep
  \/ GnssGrpcProxyServerStep
  \/ LogcatReceiverStep
  \/ MetricsServiceStep
  \/ RootCanalStep
  \/ SecureEnvironmentStep
  \/ TombstoneReceiverStep
  \/ VehicleHalServerStep
  \/ KernelLogMonitorStep
  \/ Relaunch

Spec == Init /\ [][Next]_vars

(***************************************************************************)
(* Properties of the launcher.                                             *)
(***************************************************************************)
PipeOps == SelectSeq(lastOps, LAMBDA o : o.op = "pipe")
FailedOps == SelectSeq(lastOps, LAMBDA o : o.op # "unlink" /\ ~o.ok)
Untouched ==
  /\ lastOps = <<>>
  /\ fs = lastPre.fs /\ bound = lastPre.bound /\ fds = lastPre.fds

\* The administrative switch of each service that has one, read from the
\* configuration.
SwitchedOff(name) ==
  CASE name = "RootCanal" -> ~cfg.enable_host_bluetooth
    [] name = "BluetoothConnector" -> ~cfg.enable_host_bluetooth
    [] name = "MetricsService" -> ~cfg.enable_metrics
    [] name = "GnssGrpcProxyServer" ->
         ~(cfg.enable_gnss_grpc_proxy /\ cfg.gnss_grpc_proxy_binary)
    [] name = "VehicleHalServer" ->
         ~(cfg.enable_vehicle_hal_grpc_server
           /\ cfg.vehicle_hal_grpc_server_binary)
    [] name = "ConsoleForwarder" -> ~cfg.console
    [] OTHER -> FALSE

\* C1: a service that is switched off (flag off, or for the GNSS proxy and
\* the vehicle HAL server the binary missing) returns no command and makes no
\* resource operation: no unlink, mkfifo, open, bind or mkdir; the file
\* system, the bound ports and the open descriptors are as before the call.
C1_DisabledTouchesNothing ==
  SwitchedOff(lastSvc) => lastRet = <<>> /\ Untouched

\* C1 witness: the GNSS proxy is enabled but its binary is missing, and its
\* call left a file system that already held fifos as it was.
C1_Witness ==
  /\ lastSvc = "GnssGrpcProxyServer"
  /\ cfg.enable_gnss_grpc_proxy /\ ~cfg.gnss_grpc_proxy_binary
  /\ lastRet = <<>> /\ lastOps = <<>>
  /\ "bt_fifo_vm.in" \in fs /\ fs = lastPre.fs

\* The descriptor references of the subscriber parameter of a command, in
\* order (none when the command has no such parameter).
SubscriberRefs(c) ==
  LET is == {i \in 1..Len(c.args) : c.args[i][1] = Txt("-subscriber_fds=")}
  IN IF is = {} THEN <<>>
     ELSE LET a == c.args[CHOOSE i \in is : TRUE]
          IN [j \in 1..Len(SelectSeq(a, LAMBDA x : x.fd # NoFd)) |->
                SelectSeq(a, LAMBDA x : x.fd # NoFd)[j].fd]

\* The i-th read end and the i-th write end belong to the i-th pipe created.
PairedInOrder(readEnds, writeEnds, n) ==
  /\ Len(readEnds) = n /\ Len(writeEnds) = n
  /\ \A i \in 1..n :
       /\ [fd |-> readEnds[i], obj |-> "pipe_r", id |-> i] \in fds
       /\ [fd |-> writeEnds[i], obj |-> "pipe_w", id |-> i] \in fds

\* C2 as stated: whatever happens, a call with N subscriber pipes creates N
\* pipe pairs, produces exactly one command whose subscriber parameter holds
\* the N write ends in creation order, and returns the N read ends in the
\* same order.
C2_AsStated ==
  lastSvc = "LaunchKernelLogMonitor" =>
    /\ Len(SelectSeq(PipeOps, LAMBDA o : o.ok)) = lastN
    /\ Len(lastRet) = 1
    /\ PairedInOrder(lastPipes, SubscriberRefs(lastRet[1]), lastN)

\* The subscriber parameter as AddParameter and AppendToLastParameter build it
\* for n >= 1: the flag, then the write ends separated by commas.
WellFormedSubscribers(a, n) ==
  /\ Len(a) = 2 * n
  /\ a[1] = Txt("-subscriber_fds=")
  /\ \A i \in 1..n : a[2 * i].fd # NoFd /\ a[2 * i].fd # BadFd
  /\ \A i \in 2..n : a[2 * i - 1] = Txt(",")

\* C2, amended: the three outcomes of LaunchKernelLogMonitor.
\*  - mkfifo of the log fifo fails: no pipe is created, no command and no
\*    read end is returned;
\*  - a pipe creation fails: the process exits with kPipeIOError;
\*  - otherwise: N pipe pairs, one command; for N >= 1 its subscriber
\*    parameter holds the N write ends, comma separated, in creation order
\*    (for N = 0 the command has no subscriber parameter), and the N read ends
\*    are returned in the same order.
C2_FanOut ==
  lastSvc = "LaunchKernelLogMonitor" =>
    \/ /\ lastOps = <<Op("mkfifo", "kernel_log_pipe", FALSE)>>
       /\ lastRet = <<>> /\ lastPipes = <<>> /\ exitCode = NoExit
    \/ /\ FailedOps # <<>>
       /\ ~lastOps[Len(lastOps)].ok /\ lastOps[Len(lastOps)].op = "pipe"
       /\ exitCode = "kPipeIOError" /\ lastRet = <<>> /\ lastPipes = <<>>
    \/ /\ exitCode = NoExit
       /\ Len(PipeOps) = lastN /\ \A i \in 1..lastN : PipeOps[i].ok
       /\ Len(lastRet) = 1
       /\ Len(lastRet[1].args) = (IF lastN = 0 THEN 1 ELSE 2)
       /\ lastRet[1].args[1][1] = Txt("-log_pipe_fd=")
       /\ lastN > 0 => WellFormedSubscribers(lastRet[1].args[2], lastN)
       /\ PairedInOrder(lastPipes, SubscriberRefs(lastRet[1]), lastN)

\* C2 witness: a call with at least two subscriber pipes that succeeded.
C2_Witness ==
  /\ lastSvc = "LaunchKernelLogMonitor" /\ lastN >= 2
  /\ Len(lastRet) = 1 /\ Len(lastPipes) = lastN
  /\ Len(SubscriberRefs(lastRet[1])) = lastN

\* The operations of the fifo loop of a multi-descriptor service are, in
\* order, unlink, mkfifo, open of the first path, then of the second, ...
LoopPrefix(paths) ==
  /\ Len(lastOps) <= 3 * Len(paths)
  /\ \A i \in 1..Len(lastOps) :
       /\ lastOps[i].path = paths[((i - 1) \div 3) + 1]
       /\ lastOps[i].op = <<"unlink", "mkfifo", "open">>[((i - 1) % 3) + 1]

FailFast(paths) ==
  /\ LoopPrefix(paths)
  /\ \A i \in 1..Len(lastOps) :
       (lastOps[i].op # "unlink" /\ ~lastOps[i].ok) =>
          /\ i = Len(lastOps)
          /\ lastRet = <<>>
          /\ \A j \in 1..Len(paths) :
               j > ((i - 1) \div 3) + 1 =>
                 \A k \in 1..Len(lastOps) : lastOps[k].path # paths[j]

\* C3: in the secure environment (4 pipes) and the bluetooth bridge (2
\* pipes), when creating or opening the k-th pipe fails, the failed operation
\* is the last one of the call, no command is returned, and the pipes after
\* the k-th are neither unlinked, created nor opened.
C3_FailFast ==
  /\ lastSvc = "SecureEnvironment" => FailFast(SecureFifoPaths)
  /\ (lastSvc = "BluetoothConnector" /\ cfg.enable_host_bluetooth) =>
        FailFast(BtFifoPaths)

\* C3 witness: creating the third of the four secure environment pipes
\* failed after the first two were created and opened.
C3_Witness ==
  /\ lastSvc = "SecureEnvironment"
  /\ Len(lastOps) = 8
  /\ lastOps[8] = Op("mkfifo", "gatekeeper_fifo_vm.in", FALSE)
  /\ lastOps[6] = Op("open", "keymaster_fifo_vm.out", TRUE)
  /\ lastRet = <<>>

\* A command list without the numbers of its descriptors.
Shape(cs) ==
  [i \in 1..Len(cs) |->
     [bin |-> cs[i].bin,
      args |-> [j \in 1..Len(cs[i].args) |->
                  [k \in 1..Len(cs[i].args[j]) |->
                     [s |-> cs[i].args[j][k].s,
                      isFd |-> cs[i].args[j][k].fd # NoFd]]]]]

\* C4: two launches with the same configuration, the second on the file
\* system the first one left, with no operating system failure in either,
\* produce command lists equal in length, binary paths and argument order.
C4_SameListTwice ==
  (launch = 2 /\ prev.done /\ pc = "done" /\ faults = 0) =>
     Shape(cmds) = Shape(prev.cmds)

(***************************************************************************)
(* Part II.  bt_connector/main.cpp                                         *)
(*                                                                         *)
(* A handle is "closed" (a SharedFD that is not open), "alive" (connected, *)
(* the peer has it open), "eof" (the peer closed it in an orderly way) or  *)
(* "reset" (the connection broke).  Chunks are numbered; 0 is no data.     *)
(***************************************************************************)
Threads == {"main", "g2h", "h2g"}
NoThread == "none"

\* Where openSocket returns to.
ReturnTo(t) == IF t = "main" THEN "spawn" ELSE "read"

\* A slip: main goes on after the failed Dup of bt_in.
AfterDupInFailedGoesOn == "dup_out"

\* if (!bt_in->IsOpen()) { ...; return 1; }
AfterDupInFailed == "returned"

\* auto bt_in = SharedFD::Dup(FLAGS_bt_in); if (!bt_in->IsOpen()) return 1;
\* close(FLAGS_bt_in);
DupIn ==
  /\ bpc["main"] = "dup_in"
  /\ \E ok \in BOOLEAN :
       IF ok THEN /\ bpc' = [bpc EXCEPT !["main"] = "dup_out"]
                  /\ bexit' = bexit
                  /\ btFds' = [btFds EXCEPT !["bt_in"] =
                                 [flag |-> "closed", dup |-> "open"]]
       ELSE /\ bpc' = [bpc EXCEPT !["main"] = AfterDupInFailed]
            /\ bexit' = IF AfterDupInFailed = "returned" THEN "1" ELSE bexit
            /\ btFds' = [btFds EXCEPT !["bt_in"].dup = "failed"]
  /\ UNCHANGED <<launchVars, restVars, mutex, sock, tmp, stale, peerUp, peerFailures, btIn,
                 guestSent, inflight, peerSent, buf, peerRecv, btOut, lastIO,
                 attempts>>

\* auto bt_out = SharedFD::Dup(FLAGS_bt_out); if (!bt_out->IsOpen()) return 1;
\* close(FLAGS_bt_out); then openSocket(&sock, FLAGS_hci_port) is entered.
DupOut ==
  /\ bpc["main"] = "dup_out"
  /\ \E ok \in BOOLEAN :
       IF ok THEN /\ bpc' = [bpc EXCEPT !["main"] = "os_lock"]
                  /\ bexit' = bexit
                  /\ btFds' = [btFds EXCEPT !["bt_out"] =
                                 [flag |-> "closed", dup |-> "open"]]
       ELSE /\ bpc' = [bpc EXCEPT !["main"] = "returned"]
            /\ bexit' = "1"
            /\ btFds' = [btFds EXCEPT !["bt_out"].dup = "failed"]
  /\ UNCHANGED <<launchVars, restVars, mutex, sock, tmp, stale, peerUp, peerFailures, btIn,
                 guestSent, inflight, peerSent, buf, peerRecv, btOut, lastIO,
                 attempts>>

\* A slip: the lock is taken without waiting for it.
LockFree(t) == TRUE

\* std::unique_lock<std::mutex> lock(mutex) can be taken
LockAvailable(t) == mutex = NoThread

\* openSocket: std::unique_lock<std::mutex> lock(mutex);
OsLock(t) ==
  /\ bpc[t] = "os_lock"
  /\ LockAvailable(t)
  /\ mutex' = t
  /\ bpc' = [bpc EXCEPT ![t] = "os_connect"]
  /\ UNCHANGED <<launchVars, restVars, btFds, sock, tmp, stale, peerUp, peerFailures, btIn, guestSent,
                 inflight, peerSent, buf, peerRecv, btOut, lastIO, attempts,
                 bexit>>

\* A slip: a failed connect is tried again inside openSocket.
AfterConnectRetry(result) == IF result = "alive" THEN "os_assign" ELSE "os_connect"

\* openSocket makes one connect attempt, whatever its result.
AfterConnect(result) == "os_assign"

\* openSocket: SharedFD::SocketLocalClient(port, SOCK_STREAM), one attempt.
OsConnect(t) ==
  /\ bpc[t] = "os_connect"
  /\ attempts[t] < 2
  /\ LET result == IF peerUp THEN "alive" ELSE "closed"
     IN /\ tmp' = [tmp EXCEPT ![t] = result]
        /\ bpc' = [bpc EXCEPT ![t] = AfterConnect(result)]
  /\ attempts' = [attempts EXCEPT ![t] = @ + 1]
  /\ UNCHANGED <<launchVars, restVars, btFds, mutex, sock, stale, peerUp, peerFailures, btIn, guestSent,
                 inflight, peerSent, buf, peerRecv, btOut, lastIO, bexit>>

\* A slip: the lock outlives the call.
UnlockForgotten(t) == mutex

\* ~unique_lock at the end of openSocket: the caller's lock is released.
Unlock(t) == IF mutex = t THEN NoThread ELSE mutex

\* openSocket: *fd = <the new SharedFD>; the old one is closed; the lock is
\* released on return.
OsAssign(t) ==
  /\ bpc[t] = "os_assign"
  /\ sock' = tmp[t]
  /\ tmp' = [tmp EXCEPT ![t] = "closed"]
  /\ inflight' = <<>>
  /\ stale' = (stale \/ bpc["h2g"] = "reading")
  /\ mutex' = Unlock(t)
  /\ bpc' = [bpc EXCEPT ![t] = ReturnTo(t)]
  /\ UNCHANGED <<launchVars, restVars, btFds, peerUp, peerFailures, btIn, guestSent, peerSent, buf,
                 peerRecv, btOut, lastIO, attempts, bexit>>

\* auto guest_to_host = std::thread(...); auto host_to_guest = std::thread(...);
\* then main joins them.
Spawn ==
  /\ bpc["main"] = "spawn"
  /\ bpc' = [main |-> "join", g2h |-> "read", h2g |-> "read"]
  /\ UNCHANGED <<launchVars, restVars, btFds, mutex, sock, tmp, stale, peerUp, peerFailures, btIn,
                 guestSent, inflight, peerSent, buf, peerRecv, btOut, lastIO,
                 attempts, bexit>>

\* guest_to_host: auto read = bt_in->Read(buf, sizeof(buf)); blocks until the
\* guest has written.
G2HRead ==
  /\ bpc["g2h"] = "read"
  /\ btIn # <<>>
  /\ buf' = [buf EXCEPT !["g2h"] = Head(btIn)]
  /\ btIn' = Tail(btIn)
  /\ bpc' = [bpc EXCEPT !["g2h"] = "write"]
  /\ UNCHANGED <<launchVars, restVars, btFds, mutex, sock, tmp, stale, peerUp, peerFailures, guestSent,
                 inflight, peerSent, peerRecv, btOut, lastIO, attempts, bexit>>

\* A slip: the chunk is written twice.
WriteAllTwice(written, chunk) == Append(Append(written, chunk), chunk)

\* WriteAll(fd, buf, read) when it succeeds: the read bytes of buf are
\* written once, in order; with read = 0 (chunk 0) nothing is written.
WriteAll(written, chunk) ==
  IF chunk # 0 THEN Append(written, chunk) ELSE written

\* A slip: the loop is left when the write fails.
AfterWriteFailedBreak == "done"

\* A slip: the failed write is ignored and the next chunk is read.
AfterWriteFailedSkip == "read"

\* if (WriteAll(sock, buf, read) == -1) openSocket(&sock, FLAGS_hci_port);
AfterWriteFailed == "os_lock"

\* A slip: the chunk of a failed write is kept to be sent again.
ChunkKeptOnFailure(written) == IF written THEN 0 ELSE buf["g2h"]

\* The loop goes round after the write, failed or not: buf is a local of the
\* loop body and the next Read fills it anew.
ChunkAfterWrite(written) == 0

\* guest_to_host: WriteAll(sock, buf, read)
G2HWrite ==
  /\ bpc["g2h"] = "write"
  /\ IF sock = "alive"
     THEN /\ peerRecv' = WriteAll(peerRecv, buf["g2h"])
          /\ lastIO' = [lastIO EXCEPT !["g2h"] = "ok"]
          /\ bpc' = [bpc EXCEPT !["g2h"] = "read"]
     ELSE /\ peerRecv' = peerRecv
          /\ lastIO' = [lastIO EXCEPT !["g2h"] = "fail"]
          /\ bpc' = [bpc EXCEPT !["g2h"] = AfterWriteFailed]
  /\ attempts' = [attempts EXCEPT !["g2h"] = 0]
  /\ buf' = [buf EXCEPT !["g2h"] = ChunkAfterWrite(sock = "alive")]
  /\ UNCHANGED <<launchVars, restVars, btFds, mutex, sock, tmp, stale, peerUp, peerFailures, btIn,
                 guestSent, inflight, peerSent, btOut, bexit>>

\* host_to_guest: sock->Read(buf, sizeof(buf)) is entered on the handle that
\* sock holds now.
H2GReadBegin ==
  /\ bpc["h2g"] = "read"
  /\ stale' = FALSE
  /\ bpc' = [bpc EXCEPT !["h2g"] = "reading"]
  /\ UNCHANGED <<launchVars, restVars, btFds, mutex, sock, tmp, peerUp, peerFailures, btIn, guestSent,
                 inflight, peerSent, buf, peerRecv, btOut, lastIO, attempts,
                 bexit>>

\* What sock->Read can return: -1, 0, or a chunk (1 stands for the head of
\* the data in flight).  On an alive connection without data it blocks.  When
\* the handle was replaced by the other thread during the call (a data race
\* on sock), the call ends on the closed old handle with an error or with
\* end of file.
ReadResults ==
  IF stale THEN {0 - 1, 0}
  ELSE CASE sock = "closed" -> {0 - 1}
         [] sock = "reset" -> {0 - 1}
         [] sock = "eof" -> IF inflight # <<>> THEN {1} ELSE {0}
         [] sock = "alive" -> IF inflight # <<>> THEN {1} ELSE {}

\* A slip: end of file is handled like an error.
ReadFailedOrEof(r) == r <= 0

\* if (read == -1) { openSocket(&sock, FLAGS_hci_port); continue; }
ReadFailed(r) == r = 0 - 1

\* host_to_guest: the read returns.
H2GReadEnd ==
  /\ bpc["h2g"] = "reading"
  /\ \E r \in ReadResults :
       /\ lastIO' = [lastIO EXCEPT !["h2g"] =
                       IF r = 0 - 1 THEN "fail" ELSE IF r = 0 THEN "eof" ELSE "ok"]
       /\ IF ReadFailed(r)
          THEN /\ bpc' = [bpc EXCEPT !["h2g"] = "os_lock"]
               /\ UNCHANGED <<launchVars, restVars, btFds, buf, inflight>>
          ELSE /\ bpc' = [bpc EXCEPT !["h2g"] = "write"]
               /\ buf' = [buf EXCEPT !["h2g"] = IF r = 1 THEN Head(inflight) ELSE 0]
               /\ inflight' = IF r = 1 THEN Tail(inflight) ELSE inflight
  /\ attempts' = [attempts EXCEPT !["h2g"] = 0]
  /\ stale' = FALSE
  /\ UNCHANGED <<launchVars, restVars, btFds, mutex, sock, tmp, peerUp, peerFailures, btIn, guestSent,
                 peerSent, peerRecv, btOut, bexit>>

\* host_to_guest: WriteAll(bt_out, buf, read); with read = 0 nothing is
\* written.
H2GWrite ==
  /\ bpc["h2g"] = "write"
  /\ btOut' = WriteAll(btOut, buf["h2g"])
  /\ buf' = [buf EXCEPT !["h2g"] = 0]
  /\ bpc' = [bpc EXCEPT !["h2g"] = "read"]
  /\ UNCHANGED <<launchVars, restVars, btFds, mutex, sock, tmp, stale, peerUp, peerFailures, btIn,
                 guestSent, inflight, peerSent, peerRecv, lastIO, attempts,
                 bexit>>

\* ---- the environment of the bridge ---------------------------------------
\* The guest writes a chunk to the fifo behind bt_in.
GuestWrite ==
  /\ bpc["main"] # "idle"
  /\ guestSent < MaxChunks
  /\ guestSent' = guestSent + 1
  /\ btIn' = Append(btIn, guestSent + 1)
  /\ UNCHANGED <<launchVars, restVars, btFds, bpc, mutex, sock, tmp, stale, peerUp, peerFailures, inflight,
                 peerSent, buf, peerRecv, btOut, lastIO, attempts, bexit>>

\* The peer sends a chunk on the connection the bridge holds.
PeerSend ==
  /\ sock = "alive"
  /\ peerSent < MaxChunks
  /\ peerSent' = peerSent + 1
  /\ inflight' = Append(inflight, peerSent + 1)
  /\ UNCHANGED <<launchVars, restVars, btFds, bpc, mutex, sock, tmp, stale, peerUp, peerFailures, btIn,
                 guestSent, buf, peerRecv, btOut, lastIO, attempts, bexit>>

\* The peer goes away: its connections end in an orderly close or in a reset,
\* and it accepts no connection.
PeerClose ==
  /\ bpc["main"] # "idle"
  /\ peerUp
  /\ peerFailures < MaxPeerFailures
  /\ \E kind \in {"eof", "reset"} :
       /\ sock' = IF sock = "alive" THEN kind ELSE sock
       /\ tmp' = [t \in Threads |-> IF tmp[t] = "alive" THEN kind ELSE tmp[t]]
       /\ inflight' = IF kind = "reset" THEN <<>> ELSE inflight
  /\ peerUp' = FALSE
  /\ peerFailures' = peerFailures + 1
  /\ UNCHANGED <<launchVars, restVars, btFds, bpc, mutex, stale, btIn, guestSent, peerSent, buf, peerRecv,
                 btOut, lastIO, attempts, bexit>>

\* The peer accepts connections again.
PeerReopen ==
  /\ bpc["main"] # "idle"
  /\ ~peerUp
  /\ peerUp' = TRUE
  /\ UNCHANGED <<launchVars, restVars, btFds, bpc, mutex, sock, tmp, stale, peerFailures, btIn, guestSent,
                 inflight, peerSent, buf, peerRecv, btOut, lastIO, attempts,
                 bexit>>

\* ---- the bridge as a system ------------------------------------------------
LauncherAside ==
  /\ cfg = [enable_host_bluetooth |-> TRUE, enable_metrics |-> TRUE,
            enable_gnss_grpc_proxy |-> TRUE, gnss_grpc_proxy_binary |-> TRUE,
            gnss_file_path |-> TRUE, enable_vehicle_hal_grpc_server |-> TRUE,
            vehicle_hal_grpc_server_binary |-> TRUE, console |-> TRUE]
  /\ fs = {} /\ startFs = {} /\ bound = {} /\ fds = {}
  /\ pc = "start" /\ idx = 1 /\ cmds = <<>>
  /\ exitCode = NoExit
  /\ lastSvc = "none" /\ lastOps = <<>> /\ lastRet = <<>>
  /\ lastPipes = <<>> /\ lastN = 0
  /\ lastPre = [fs |-> {}, bound |-> {}, fds |-> {}]
  /\ faults = 0 /\ launch = 1
  /\ prev = [done |-> FALSE, cmds |-> <<>>]

BridgeInit ==
  /\ bpc = [main |-> "dup_in", g2h |-> "idle", h2g |-> "idle"]
  /\ mutex = NoThread /\ sock = "closed"
  /\ tmp = [t \in Threads |-> "closed"]
  /\ stale = FALSE /\ peerUp \in BOOLEAN /\ peerFailures = 0
  /\ btIn = <<>> /\ guestSent = 0 /\ inflight = <<>> /\ peerSent = 0
  /\ buf = [t \in {"g2h", "h2g"} |-> 0]
  /\ peerRecv = <<>> /\ btOut = <<>>
  /\ lastIO = [t \in Threads |-> "none"]
  /\ attempts = [t \in Threads |-> 0]
  /\ bexit = NoExit
  /\ btFds = Inherited

MainStep == DupIn \/ DupOut \/ OsLock("main") \/ OsConnect("main")
            \/ OsAssign("main") \/ Spawn
guest_to_host == G2HRead \/ G2HWrite \/ OsLock("g2h") \/ OsConnect("g2h")
                 \/ OsAssign("g2h")
host_to_guest == H2GReadBegin \/ H2GReadEnd \/ H2GWrite \/ OsLock("h2g")
                 \/ OsConnect("h2g") \/ OsAssign("h2g")

BridgeStart == LauncherAside /\ BridgeInit /\ FrontendIdle /\ ComposerInit

BridgeNext ==
  \/ DupIn
  \/ DupOut
  \/ Spawn
  \/ \E t \in Threads : OsLock(t)
  \/ \E t \in Threads : OsConnect(t)
  \/ \E t \in Threads : OsAssign(t)
  \/ G2HRead
  \/ G2HWrite
  \/ H2GReadBegin
  \/ H2GReadEnd
  \/ H2GWrite
  \/ GuestWrite
  \/ PeerSend
  \/ PeerClose
  \/ PeerReopen

SpecBridge == BridgeStart /\ [][BridgeNext]_vars

\* The operating system schedules each thread that can run.
SpecBridgeFair ==
  /\ SpecBridge
  /\ WF_vars(MainStep)
  /\ WF_vars(guest_to_host)
  /\ WF_vars(host_to_guest)

(***************************************************************************)
(* Properties of the bridge.                                               *)
(***************************************************************************)
Directions == {"g2h", "h2g"}
InOpenSocket(t) == bpc[t] \in {"os_lock", "os_connect", "os_assign"}
HoldsLock(t) == bpc[t] \in {"os_connect", "os_assign"}
Started == bpc["main"] = "join"

\* C5: when the peer has closed and accepts connections again (here: for
\* good), both directions resume; for that the shared handle has to become a
\* connected socket again, also when the guest writes nothing to bt_in.
C5_ResumesAfterPeerReturns ==
  (Started /\ peerFailures >= 1 /\ peerFailures = MaxPeerFailures /\ peerUp)
     ~> (sock = "alive")

\* C6 as stated: a direction loop reads a chunk from bt_in only while the
\* shared handle is an open socket (the bridge having blocked in openSocket
\* until a connect succeeded).
C6_AsStated ==
  [][(bpc["g2h"] = "read" /\ bpc'["g2h"] = "write") => sock # "closed"]_vars

\* C6, amended: openSocket makes exactly one connect attempt per call and
\* returns whatever its result: before the attempt the caller has made none
\* since its last socket I/O, after it exactly one; main starts the threads
\* after its single attempt.
C6_OneAttemptPerCall ==
  /\ \A t \in Threads :
       /\ attempts[t] <= 1
       /\ bpc[t] \in {"os_lock", "os_connect"} => attempts[t] = 0
       /\ bpc[t] = "os_assign" => attempts[t] = 1
  /\ bpc["main"] \in {"spawn", "join"} => attempts["main"] = 1

\* C6 witness: after a failed write and its one failed connect attempt,
\* guest_to_host has read the next chunk while the handle is not open.
C6_Witness ==
  /\ bpc["g2h"] = "write" /\ buf["g2h"] # 0
  /\ sock = "closed"
  /\ lastIO["g2h"] = "fail" /\ attempts["g2h"] = 1

\* C7: between a failed write of guest_to_host and the next chunk it
\* forwards, guest_to_host makes exactly one connect attempt: none is pending
\* any more once it is back in its loop, and none was made twice.
C7_ExactlyOneReconnect ==
  lastIO["g2h"] = "fail" =>
    /\ bpc["g2h"] \in {"os_lock", "os_connect"} => attempts["g2h"] = 0
    /\ bpc["g2h"] \in {"os_assign", "read", "write"} => attempts["g2h"] = 1
    /\ bpc["g2h"] \in {"os_lock", "os_connect", "os_assign", "read", "write"}

\* C7 witness: the peer closed and reopened; guest_to_host, after its failed
\* write and one connect attempt, holds the next chunk for a connected socket.
C7_Witness ==
  /\ peerFailures >= 1 /\ peerUp
  /\ lastIO["g2h"] = "fail" /\ attempts["g2h"] = 1
  /\ bpc["g2h"] = "write" /\ buf["g2h"] # 0
  /\ sock = "alive"

\* C8 as stated: a direction is in openSocket only after its own failed write
\* to the peer socket; guest_to_host is the only direction that writes to it.
C8_AsStated ==
  \A t \in Directions :
    InOpenSocket(t) => (t = "g2h" /\ lastIO[t] = "fail")

\* C8, amended: a direction is in openSocket only when its own last I/O on
\* the socket returned -1 (the write of guest_to_host, the read of
\* host_to_guest); neither loop ends, and while one direction reconnects the
\* other can take the next step of its loop unless it is blocked in a read
\* on a connection without data.
C8_OwnFailureOnly ==
  /\ \A t \in Directions : InOpenSocket(t) => lastIO[t] = "fail"
  /\ \A t \in Directions : bpc[t] # "done"
  /\ (InOpenSocket("g2h") /\ bpc["h2g"] \in {"read", "write"}) =>
        ENABLED (H2GReadBegin \/ H2GWrite)
  /\ (InOpenSocket("g2h") /\ bpc["h2g"] = "reading" /\ ReadResults # {}) =>
        ENABLED H2GReadEnd
  /\ (InOpenSocket("h2g") /\ bpc["g2h"] = "write") => ENABLED G2HWrite
  /\ (InOpenSocket("h2g") /\ bpc["g2h"] = "read" /\ btIn # <<>>) =>
        ENABLED G2HRead

\* C8 witness: host_to_guest reconnects after its own failed read while the
\* last write of guest_to_host succeeded.
C8_Witness ==
  /\ InOpenSocket("h2g") /\ lastIO["h2g"] = "fail"
  /\ lastIO["g2h"] = "ok" /\ ~InOpenSocket("g2h")

\* C9: at most one thread is inside the connect-and-replace part of
\* openSocket, and it holds the mutex.
C9_OneReconnectAtATime ==
  /\ Cardinality({t \in Threads : HoldsLock(t)}) <= 1
  /\ \A t \in Threads : HoldsLock(t) => mutex = t

\* C9 witness: both directions are in openSocket, one connecting and the
\* other waiting for the lock.
C9_Witness ==
  /\ HoldsLock("g2h") /\ bpc["h2g"] = "os_lock"
  /\ mutex = "g2h"

\* C10: once both descriptors are duplicated, no failed connect, read or
\* write ends the process or a direction loop, and a failed write of
\* guest_to_host is followed by a connect attempt.
C10_NeverTerminates ==
  bpc["main"] \in {"os_lock", "os_connect", "os_assign", "spawn", "join"} =>
    /\ bexit = NoExit
    /\ \A t \in Directions : bpc[t] # "done"
    /\ Started => \A t \in Directions :
         bpc[t] \in {"read", "reading", "write", "os_lock", "os_connect",
                     "os_assign"}
    /\ (lastIO["g2h"] = "fail" /\ attempts["g2h"] = 0) => InOpenSocket("g2h")

\* C10 witness: the peer has gone away twice, the last write of
\* guest_to_host and the last read of host_to_guest failed, and
\* guest_to_host is about to make a connect attempt that fails.
C10_Witness ==
  /\ peerFailures >= 2 /\ ~peerUp
  /\ lastIO["g2h"] = "fail" /\ lastIO["h2g"] = "fail"
  /\ bpc["g2h"] = "os_connect"
  /\ bexit = NoExit

\* The chunks 1 .. n in the order in which they were produced.
Produced(n) == [i \in 1..n |-> i]
Increasing(s) == \A i, j \in 1..Len(s) : i < j => s[i] < s[j]
Held(t) == IF buf[t] # 0 THEN <<buf[t]>> ELSE <<>>

\* C11: what the bridge writes to the peer socket is what it read from bt_in
\* and what it writes to bt_out is what it read from the socket: every
\* chunk at most once, in the order read, nothing added; a write on an
\* established connection delivers exactly the chunk read before it, and a
\* write to bt_out exactly the chunk read from the socket.
C11_ForwardsUnchanged ==
  /\ [](/\ Increasing(peerRecv \o Held("g2h") \o btIn)
        /\ Increasing(btOut \o Held("h2g") \o inflight)
        /\ \A i \in 1..Len(peerRecv) : peerRecv[i] \in 1..guestSent
        /\ \A i \in 1..Len(btOut) : btOut[i] \in 1..peerSent)
  /\ [][/\ (bpc["g2h"] = "write" /\ bpc'["g2h"] # "write" /\ sock = "alive")
             => peerRecv' = Append(peerRecv, buf["g2h"])
        /\ (bpc["h2g"] = "write" /\ bpc'["h2g"] # "write")
             => btOut \o Held("h2g") = btOut'
        /\ (bpc["g2h"] = "read" /\ bpc'["g2h"] = "write")
             => <<buf'["g2h"]>> \o btIn' = btIn
        /\ (bpc["g2h"] # "write" \/ bpc'["g2h"] = "write")
             => peerRecv' = peerRecv
        /\ (bpc["h2g"] # "write" \/ bpc'["h2g"] = "write")
             => btOut' = btOut]_vars

\* C11 witness: with the peer up all the time, both chunks of the guest have
\* reached the peer and both chunks of the peer have reached bt_out.
C11_Witness ==
  /\ peerFailures = 0
  /\ guestSent >= 2 /\ peerRecv = Produced(guestSent)
  /\ peerSent >= 2 /\ btOut = Produced(peerSent)

(***************************************************************************)
(* Further properties of the launcher.                                     *)
(***************************************************************************)
\* The services whose provisioning failures are not fatal.
NonCritical ==
  {"LogcatReceiver", "GnssGrpcProxyServer", "ConsoleForwarder",
   "BluetoothConnector", "SecureEnvironment"}

CarriesBadFd(c) ==
  \E i \in 1..Len(c.args) : \E j \in 1..Len(c.args[i]) : c.args[i][j].fd = BadFd

\* C12: when a mkfifo or an open of a non-critical service fails, the call
\* returns no Command, and no Command it returns carries a descriptor that
\* is not open.
C12_FailureGivesNothing ==
  lastSvc \in NonCritical =>
    /\ FailedOps # <<>> => lastRet = <<>>
    /\ \A i \in 1..Len(lastRet) : ~CarriesBadFd(lastRet[i])

\* enum RunnerExitCodes: the enumerators the launcher exits with here.
RunnerExitCodes ==
  {"kPipeIOError", "kConfigServerError", "kTombstoneServerError",
   "kTombstoneDirCreationError"}

\* The call just made ended on a failed operation op of service svc.
EndedOnFailed(svc, op) ==
  /\ lastSvc = svc
  /\ lastOps # <<>>
  /\ lastOps[Len(lastOps)].op = op
  /\ ~lastOps[Len(lastOps)].ok

\* C13: the process exits exactly on the four fatal failures, each with the
\* code of its own category, and then the failing call has returned no
\* Command and no read end and the launch has no command list.
C13_FatalExitCodes ==
  /\ exitCode \in RunnerExitCodes \cup {NoExit}
  /\ (exitCode # NoExit) <=> (pc = "exited")
  /\ (exitCode # NoExit) => (lastRet = <<>> /\ lastPipes = <<>> /\ cmds = <<>>)
  /\ (exitCode = "kConfigServerError") <=> EndedOnFailed("ConfigServer", "bind")
  /\ (exitCode = "kTombstoneServerError") <=>
        EndedOnFailed("TombstoneReceiver", "bind")
  /\ (exitCode = "kTombstoneDirCreationError") <=>
        EndedOnFailed("TombstoneReceiver", "mkdir")
  /\ (exitCode = "kPipeIOError") <=>
        EndedOnFailed("LaunchKernelLogMonitor", "pipe")

\* C13 witness: late in the composition pass the tombstones directory
\* cannot be created and the launcher exits.
C13_Witness ==
  /\ exitCode = "kTombstoneDirCreationError"
  /\ EndedOnFailed("TombstoneReceiver", "mkdir")
  /\ pc = "exited" /\ cmds = <<>>

BluetoothBinaries == {"root-canal", "bt_connector"}
BluetoothFifos == {BtFifoPaths[i] : i \in 1..Len(BtFifoPaths)}
NoBluetoothCommand ==
  \A i \in 1..Len(cmds) : cmds[i].bin \notin BluetoothBinaries

\* C14 as stated: with bluetooth disabled, the composed list has no bluetooth
\* Command and after composition neither bluetooth fifo exists, whatever was
\* in the instance directory before.
C14_AsStated ==
  (pc = "done" /\ ~cfg.enable_host_bluetooth) =>
     (NoBluetoothCommand /\ BluetoothFifos \cap fs = {})

\* C14, amended: with bluetooth disabled, no bluetooth Command is ever in the
\* list and the launch neither creates nor removes a bluetooth fifo: each
\* exists exactly if it existed when the launch started.
C14_BluetoothOff ==
  ~cfg.enable_host_bluetooth =>
     (NoBluetoothCommand /\ BluetoothFifos \cap fs = BluetoothFifos \cap startFs)

\* C14 witness: a composition pass with bluetooth disabled has ended with
\* other Commands in the list and the stale bluetooth fifos still there.
C14_Witness ==
  /\ pc = "done" /\ ~cfg.enable_host_bluetooth
  /\ cmds # <<>> /\ NoBluetoothCommand
  /\ BluetoothFifos \subseteq fs

\* The fifos the last call created with mkfifo.
CreatedFifos ==
  {lastOps[i].path :
     i \in {j \in 1..Len(lastOps) : lastOps[j].op = "mkfifo" /\ lastOps[j].ok}}

\* The launcher holds a descriptor that SharedFD::Open(path, O_RDWR) gave it:
\* the fifo has a reader and a writer whatever its consumer does.
HeldOpen(p) == \E x \in fds : x.obj = p

Referenced(c, p) ==
  \E i \in 1..Len(c.args) : \E j \in 1..Len(c.args[i]) :
    \E x \in fds : x.obj = p /\ x.fd = c.args[i][j].fd

\* C15: when a call has produced a Command, every fifo the call created is
\* held open for reading and writing by the launcher, and the Command refers
\* to that descriptor.
C15_PipesKeptOpen ==
  lastRet # <<>> =>
    \A p \in CreatedFifos : HeldOpen(p) /\ Referenced(lastRet[1], p)

\* C16: every mkfifo of a call comes right after an unlink of the same path,
\* and without an operating system failure no mkfifo fails, also on an
\* instance directory that a previous launch has used.
C16_UnlinksStalePipes ==
  \A i \in 1..Len(lastOps) :
    lastOps[i].op = "mkfifo" =>
      /\ i > 1
      /\ lastOps[i - 1].op = "unlink"
      /\ lastOps[i - 1].path = lastOps[i].path
      /\ faults = 0 => lastOps[i].ok

\* The order in which the claim lists the services, by binary.
StatedOrder ==
  <<"config_server", "console_forwarder", "bt_connector", "gnss_grpc_proxy",
    "logcat_receiver", "metrics", "root-canal", "secure_env",
    "tombstone_receiver", "vehicle_hal_grpc_server">>
Rank(bin) == CHOOSE k \in 1..Len(StatedOrder) : StatedOrder[k] = bin

\* C17: the list is built by appending, in the stated order, what each
\* source returned, unchanged; each source returns at most one Command; the
\* Commands of the list are always in the stated order.
C17_Concatenation ==
  /\ [](/\ \A i \in 1..Len(cmds) : cmds[i].bin \in
                {StatedOrder[k] : k \in 1..Len(StatedOrder)}
        /\ \A i, j \in 1..Len(cmds) :
             i < j => Rank(cmds[i].bin) < Rank(cmds[j].bin)
        /\ Len(lastRet) <= 1)
  /\ [][(idx' = idx + 1) =>
          /\ cmds' = cmds \o lastRet'
          /\ \A i \in 1..Len(lastRet') : Rank(lastRet'[i].bin) = idx]_vars

\* C17 witness: a composition pass has ended with a Command of every one of
\* the ten sources.
C17_Witness ==
  /\ pc = "done"
  /\ Len(cmds) = Len(StatedOrder)
  /\ \A i \in 1..Len(cmds) : cmds[i].bin = StatedOrder[i]

MultiDescriptor == {"SecureEnvironment", "BluetoothConnector"}

\* C18 as stated: in a call of a multi-descriptor service every mkfifo comes
\* before the first open.
C18_AsStated ==
  lastSvc \in MultiDescriptor =>
    \A i, j \in 1..Len(lastOps) :
      (lastOps[i].op = "mkfifo" /\ lastOps[j].op = "open") => i < j

\* C18, amended: a multi-descriptor service works path by path: a fifo is
\* opened right after its own mkfifo succeeded, and the mkfifo of the next
\* path comes only after the open of the path before it succeeded.
C18_PathByPath ==
  lastSvc \in MultiDescriptor =>
    \A i \in 1..Len(lastOps) :
      /\ lastOps[i].op = "open" =>
           /\ i > 1
           /\ lastOps[i - 1] = Op("mkfifo", lastOps[i].path, TRUE)
      /\ (lastOps[i].op = "mkfifo" /\ i > 2) =>
           /\ lastOps[i - 2].op = "open"
           /\ lastOps[i - 2].ok
           /\ lastOps[i - 2].path # lastOps[i].path

\* C18 witness: the secure environment has provisioned its four fifos and
\* returned its Command.
C18_Witness ==
  /\ lastSvc = "SecureEnvironment" /\ lastRet # <<>>
  /\ Len(SelectSeq(lastOps, LAMBDA o : o.op = "open" /\ o.ok)) = 4
  /\ Len(SelectSeq(lastOps, LAMBDA o : o.op = "mkfifo" /\ o.ok)) = 4

\* C19: when a command source has returned an empty sequence, no descriptor
\* opened by the call is still open in the launcher and no fifo created by
\* the call is still in the file system.
C19_ReleasesPartial ==
  (\E k \in 1..NumSources : lastSvc = Sources[k]) =>
    ((lastRet = <<>> /\ exitCode = NoExit) =>
       (fds = lastPre.fds /\ CreatedFifos \cap fs = {}))

(***************************************************************************)
(* Further properties of the bridge.                                       *)
(***************************************************************************)
Other(t) == IF t = "g2h" THEN "h2g" ELSE "g2h"
InIO(t) == bpc[t] \in {"read", "reading", "write"}

\* C20: the mutex is held inside the connect-and-replace part of openSocket
\* only, never by a thread that is in a read or a write; while a direction is
\* in (or blocked in) I/O the other direction can take every step of its
\* reconnect.
C20_LockForReconnectOnly ==
  /\ \A t \in Threads : mutex = t => HoldsLock(t)
  /\ \A t \in Directions : InIO(t) => mutex # t
  /\ \A t \in Directions :
       (Started /\ InIO(Other(t))) =>
         /\ bpc[t] = "os_lock" => ENABLED OsLock(t)
         /\ bpc[t] = "os_connect" => ENABLED OsConnect(t)
         /\ bpc[t] = "os_assign" => ENABLED OsAssign(t)

\* C20 witness: host_to_guest is blocked in a read on a connection without
\* data while guest_to_host, holding the lock, is about to replace the handle
\* that read uses.
C20_Witness ==
  /\ bpc["h2g"] = "reading" /\ ReadResults = {}
  /\ bpc["g2h"] = "os_assign" /\ mutex = "g2h"
  /\ sock = "alive"

(***************************************************************************)
(* Properties of the tombstone receiver.                                   *)
(***************************************************************************)
OpsNamed(o) == SelectSeq(lastOps, LAMBDA x : x.op = o)

\* C21: the tombstone receiver makes the directory only when it is absent;
\* when it exists the call makes no mkdir, does not end with the directory
\* error, goes on to bind, and returns its Command when the bind succeeds.
C21_EnsureDirectory ==
  lastSvc = "TombstoneReceiver" =>
    /\ "tombstones" \in lastPre.fs =>
         /\ OpsNamed("mkdir") = <<>>
         /\ exitCode # "kTombstoneDirCreationError"
         /\ Len(lastOps) = 1 /\ lastOps[1].op = "bind"
         /\ lastOps[1].ok => (Len(lastRet) = 1 /\ exitCode = NoExit)
    /\ "tombstones" \notin lastPre.fs =>
         (lastOps # <<>> /\ lastOps[1].op = "mkdir")

\* C21 witness: in a second launch the directory of the first launch is
\* there and the tombstone receiver returns its Command.
C21_Witness ==
  /\ launch = 2 /\ lastSvc = "TombstoneReceiver"
  /\ "tombstones" \in lastPre.fs
  /\ Len(lastRet) = 1 /\ lastRet[1].bin = "tombstone_receiver"

(***************************************************************************)
(* Part III.  frontend/webrtc/main.cpp: the input listeners                *)
(***************************************************************************)
\* The order of the three initial accepts and of the thread constructions.
InitialOrder == <<"touch", "keyboard", "switches">>

\* What SharedFD::Accept(*server) can return now: the first waiting client,
\* or a SharedFD that is not open when the accept fails; it blocks otherwise.
AcceptResults(e) ==
  (IF backlog[e] # <<>> THEN {Head(backlog[e])} ELSE {})
    \cup (IF acceptFailures < MaxAcceptFailures THEN {BadFd} ELSE {})

\* A slip: the accepted client is stored in the slot of touch.
AcceptSlotAlwaysTouch(e) == "touch"

\* input_sockets.<e>_client = SharedFD::Accept(*input_sockets.<e>_server)
AcceptSlot(e) == e

\* The assignment of one accept's result r on endpoint e by thread by.
AcceptInto(e, r, by) ==
  /\ slot' = [slot EXCEPT ![AcceptSlot(e)] = r]
  /\ backlog' = IF r # BadFd THEN [backlog EXCEPT ![e] = Tail(@)] ELSE backlog
  /\ acceptFailures' = IF r = BadFd THEN acceptFailures + 1 ELSE acceptFailures
  /\ lastAccept' = [ep |-> e, by |-> by, result |-> r]

\* streamer->Register(operator_observer) comes after the accepts, the thread
\* constructions and the set-up of the streamer.
RegisterPosition == "register"

\* main: the three accepts before the threads are made.
MainAccept ==
  /\ fpc = "accept"
  /\ Len(initial) < Len(InitialOrder)
  /\ LET e == InitialOrder[Len(initial) + 1]
     IN \E r \in AcceptResults(e) :
          /\ AcceptInto(e, r, "main")
          /\ initial' = Append(initial, r)
          /\ fpc' = IF Len(initial) + 1 = Len(InitialOrder) THEN "spawn"
                    ELSE "accept"
  /\ UNCHANGED <<launchVars, bridgeVars, composerVars, accepters, clients, registered>>

\* main: std::thread touch_accepter, keyboard_accepter, switches_accepter.
FrontSpawn ==
  /\ fpc = "spawn"
  /\ LET k == Cardinality(accepters) + 1
     IN /\ accepters' = accepters \cup {InitialOrder[k]}
        /\ fpc' = IF k = Len(InitialOrder) THEN "setup" ELSE "spawn"
  /\ UNCHANGED <<launchVars, bridgeVars, composerVars, initial, slot, backlog, clients,
                 acceptFailures, registered, lastAccept>>

\* main: Streamer::Create and the rest of the set-up; CHECK(streamer) ends
\* the process when the streamer cannot be created.
FrontSetup ==
  /\ fpc = "setup"
  /\ \E created \in BOOLEAN :
       IF created THEN fpc' = "register" /\ accepters' = accepters
       ELSE fpc' = "aborted" /\ accepters' = {}
  /\ UNCHANGED <<launchVars, bridgeVars, composerVars, initial, slot, backlog, clients,
                 acceptFailures, registered, lastAccept>>

\* main: streamer->Register(operator_observer)
FrontRegister ==
  /\ fpc = RegisterPosition
  /\ ~registered
  /\ registered' = TRUE
  /\ fpc' = IF fpc = "register" THEN "running" ELSE fpc
  /\ UNCHANGED <<launchVars, bridgeVars, composerVars, initial, accepters, slot, backlog,
                 clients, acceptFailures, lastAccept>>

\* An acceptor thread: for (;;) <e>_client = SharedFD::Accept(*<e>_server);
AccepterAccept(e) ==
  /\ e \in accepters
  /\ \E r \in AcceptResults(e) : AcceptInto(e, r, e)
  /\ UNCHANGED <<launchVars, bridgeVars, composerVars, fpc, initial, accepters, clients,
                 registered>>

\* A client (an input device of the virtual machine) connects to a listener.
ClientConnects(e) ==
  /\ fpc \notin {"idle", "aborted"}
  /\ clients < MaxClients
  /\ clients' = clients + 1
  /\ backlog' = [backlog EXCEPT ![e] = Append(@, clients + 1)]
  /\ UNCHANGED <<launchVars, bridgeVars, composerVars, fpc, initial, accepters, slot,
                 acceptFailures, registered, lastAccept>>

\* main after the descriptors are duplicated.
FrontInit ==
  /\ fpc = "accept" /\ initial = <<>> /\ accepters = {}
  /\ slot = [e \in Endpoints |-> 0]
  /\ backlog = [e \in Endpoints |-> <<>>]
  /\ clients = 0 /\ acceptFailures = 0 /\ registered = FALSE
  /\ lastAccept = [ep |-> "none", by |-> "none", result |-> 0]

FrontStart == LauncherAside /\ BridgeIdle /\ FrontInit /\ ComposerInit

FrontNext ==
  \/ MainAccept
  \/ FrontSpawn
  \/ FrontSetup
  \/ FrontRegister
  \/ \E e \in Endpoints : AccepterAccept(e)
  \/ \E e \in Endpoints : ClientConnects(e)

SpecFrontend == FrontStart /\ [][FrontNext]_vars

(***************************************************************************)
(* Properties of the streaming front end.                                  *)
(***************************************************************************)
\* C22: a slot changes only by an accept on its own endpoint, made by that
\* endpoint's acceptor thread or, before any thread runs, by main; it then
\* holds what that accept returned, and an accepted client is the one that
\* waited longest on that endpoint and is newer than the client it replaces;
\* the slot of the last accept always holds the result of that accept.
C22_SlotPerEndpoint ==
  /\ [](lastAccept.ep \in Endpoints => slot[lastAccept.ep] = lastAccept.result)
  /\ [][\A e \in Endpoints :
          slot'[e] # slot[e] =>
            /\ lastAccept'.ep = e
            /\ lastAccept'.by \in {e, "main"}
            /\ lastAccept'.by = "main" => accepters = {}
            /\ lastAccept'.by = e => e \in accepters
            /\ slot'[e] = lastAccept'.result
            /\ slot'[e] # BadFd =>
                 /\ backlog[e] # <<>> /\ slot'[e] = Head(backlog[e])
                 /\ slot'[e] > slot[e]]_vars

\* C22 witness: after the three initial accepts the touch acceptor has
\* accepted a new client, which replaced the first one; the slots of
\* keyboard and switches still hold their first clients.
C22_Witness ==
  /\ Len(initial) = 3
  /\ \A k \in 1..3 : initial[k] > 0
  /\ lastAccept = [ep |-> "touch", by |-> "touch", result |-> slot["touch"]]
  /\ slot["touch"] > initial[1]
  /\ slot["keyboard"] = initial[2] /\ slot["switches"] = initial[3]

\* C23: the streamer registers only after main has accepted a first client
\* on touch, then keyboard, then switches; the acceptor threads run only
\* after these three accepts; while one of them has not completed there is
\* no registration.
C23_RegistersAfterClients ==
  /\ (registered \/ accepters # {}) =>
       /\ Len(initial) = Len(InitialOrder)
       /\ \A k \in 1..Len(initial) : initial[k] > 0
       /\ \A j, k \in 1..Len(initial) : j < k => initial[j] # initial[k]
  /\ Len(initial) < Len(InitialOrder) => (~registered /\ fpc = "accept")

\* The chunks guest_to_host has read from bt_in so far.
ReadFromBtIn == {c \in 1..guestSent : \A i \in 1..Len(btIn) : btIn[i] # c}

\* C24: guest_to_host holds a chunk exactly from its read to the one write
\* that follows; that write delivers the chunk or, when it fails, drops it;
\* the next chunk submitted is a later one, so what the peer received is an
\* increasing selection of the chunks read.
C24_FailedChunkDropped ==
  /\ []((bpc["g2h"] = "write") <=> (buf["g2h"] # 0))
  /\ [](/\ Increasing(peerRecv)
        /\ \A i \in 1..Len(peerRecv) : peerRecv[i] \in ReadFromBtIn
        /\ buf["g2h"] # 0 =>
             /\ buf["g2h"] \in ReadFromBtIn
             /\ \A i \in 1..Len(peerRecv) : peerRecv[i] < buf["g2h"])
  /\ [][(bpc["g2h"] = "write" /\ bpc'["g2h"] # "write") =>
          /\ peerRecv' = IF sock = "alive" THEN Append(peerRecv, buf["g2h"])
                         ELSE peerRecv
          /\ lastIO'["g2h"] = (IF sock = "alive" THEN "ok" ELSE "fail")]_vars
  /\ [][(bpc["g2h"] = "read" /\ bpc'["g2h"] = "write") =>
          \A c \in ReadFromBtIn : c < buf'["g2h"]]_vars

\* C24 witness: the first chunk was read and its write failed; after the
\* reconnect the second chunk was read and delivered; the first is missing.
C24_Witness ==
  /\ guestSent = 2 /\ btIn = <<>> /\ buf["g2h"] = 0
  /\ peerRecv = <<2>>

\* C25: a failed Dup of bt_in ends main with 1 before bt_out is duplicated
\* or closed; a failed Dup of bt_out ends main with 1; in both cases no
\* connect is attempted and no thread is started; the threads run only after
\* both Dups succeeded and main made one connect attempt.
C25_StartUp ==
  /\ btFds["bt_in"].dup = "failed" =>
       /\ bexit = "1" /\ bpc["main"] = "returned"
       /\ btFds["bt_in"].flag = "open"
       /\ btFds["bt_out"] = [flag |-> "open", dup |-> "none"]
  /\ btFds["bt_out"].dup = "failed" =>
       /\ bexit = "1" /\ bpc["main"] = "returned"
       /\ btFds["bt_out"].flag = "open"
       /\ btFds["bt_in"] = [flag |-> "closed", dup |-> "open"]
  /\ bexit # NoExit =>
       /\ attempts["main"] = 0 /\ sock = "closed" /\ mutex = NoThread
       /\ \A t \in Directions : bpc[t] = "idle"
       /\ \E p \in {"bt_in", "bt_out"} : btFds[p].dup = "failed"
  /\ (\E t \in Directions : bpc[t] # "idle") =>
       /\ \A p \in {"bt_in", "bt_out"} :
            btFds[p] = [flag |-> "closed", dup |-> "open"]
       /\ attempts["main"] = 1
       /\ Started

\* C25 witness: bt_in was duplicated and closed, the Dup of bt_out failed and
\* main has returned 1.
C25_Witness ==
  /\ bexit = "1" /\ bpc["main"] = "returned"
  /\ btFds["bt_in"] = [flag |-> "closed", dup |-> "open"]
  /\ btFds["bt_out"] = [flag |-> "open", dup |-> "failed"]

\* The positional parameters of the bluetooth controller: test, HCI, link.
ControllerPorts(c) ==
  [test |-> c.args[1][1].s, hci |-> c.args[2][1].s, link |-> c.args[3][1].s]

\* The value the bridge is given for a flag.
FlagValue(c, flag) ==
  LET i == CHOOSE k \in 1..Len(c.args) : c.args[k][1] = Txt(flag)
  IN c.args[i][2].s

BridgePorts(c) ==
  [test |-> FlagValue(c, "-test_port="), hci |-> FlagValue(c, "-hci_port="),
   link |-> FlagValue(c, "-link_port=")]

Binaries(list) == {list[i].bin : i \in 1..Len(list)}

\* The composition pass has gone past the bluetooth controller.
PastRootCanal ==
  \/ pc = "done"
  \/ pc = "compose" /\ idx > Position("RootCanal")

\* C26: the bridge Command carries the HCI, link and test port values of the
\* controller Command; the controller is composed exactly when the flag is
\* set, the bridge exactly when the flag is set and no mkfifo or open of its
\* fifos failed; so a composed list with a bridge has a controller, and one
\* with a controller and no bridge comes from a failed fifo provisioning.
C26_BluetoothWiring ==
  /\ lastSvc = "RootCanal" =>
       (lastRet # <<>> <=> cfg.enable_host_bluetooth)
  /\ lastSvc = "BluetoothConnector" =>
       /\ lastRet # <<>> <=> (cfg.enable_host_bluetooth /\ FailedOps = <<>>)
       /\ \A i \in 1..Len(FailedOps) :
            /\ FailedOps[i].op \in {"mkfifo", "open"}
            /\ FailedOps[i].path \in BluetoothFifos
  /\ PastRootCanal =>
       /\ "root-canal" \in Binaries(cmds) <=> cfg.enable_host_bluetooth
       /\ "bt_connector" \in Binaries(cmds) => "root-canal" \in Binaries(cmds)
       /\ \A i, j \in 1..Len(cmds) :
            (cmds[i].bin = "bt_connector" /\ cmds[j].bin = "root-canal") =>
               BridgePorts(cmds[i]) = ControllerPorts(cmds[j])

\* C26 witness: a composition pass has ended with both the bridge and the
\* controller in the list.
C26_Witness ==
  /\ pc = "done"
  /\ {"bt_connector", "root-canal"} \subseteq Binaries(cmds)

\* C27: the tombstone receiver binds its listener only with the tombstones
\* directory in place, as the call after the directory test or after the
\* mkdir that succeeded; a run that ends with the directory-creation exit
\* code made no bind attempt and has the tombstone port unbound.
C27_DirectoryThenListener ==
  /\ "tombstone_receiver_port" \in bound => "tombstones" \in fs
  /\ lastSvc = "TombstoneReceiver" =>
       /\ \A i \in 1..Len(lastOps) :
            lastOps[i].op = "bind" =>
              /\ "tombstones" \in fs
              /\ i = Len(lastOps)
              /\ \/ i = 1 /\ "tombstones" \in lastPre.fs
                 \/ i = 2 /\ lastOps[1] = Op("mkdir", "tombstones", TRUE)
       /\ (lastOps # <<>> /\ ~lastOps[1].ok /\ lastOps[1].op = "mkdir") =>
            exitCode = "kTombstoneDirCreationError"
  /\ exitCode = "kTombstoneDirCreationError" =>
       /\ lastSvc = "TombstoneReceiver"
       /\ OpsNamed("bind") = <<>>
       /\ lastOps = <<Op("mkdir", "tombstones", FALSE)>>
       /\ "tombstone_receiver_port" \notin bound
       /\ "tombstone_receiver_port" \notin lastPre.bound
       /\ lastRet = <<>>

\* C27 witness: the directory was missing, its creation failed and the
\* launcher has exited with the directory-creation code.
C27_Witness ==
  /\ pc = "exited" /\ exitCode = "kTombstoneDirCreationError"
  /\ lastSvc = "TombstoneReceiver"
  /\ "tombstones" \notin fs

(***************************************************************************)
(* Part IV.  hwcomposer/base_composer.cpp                                  *)
(***************************************************************************)

\* What the gralloc calls do with a buffer handle: all succeed, or Import,
\* Lock or Get gives nothing.
Handles == {"good", "no_import", "no_lock", "no_get"}

CompositionTypes == {"HWC_FRAMEBUFFER", "HWC_FRAMEBUFFER_TARGET"}
IS_TARGET_FRAMEBUFFER(x) == x = "HWC_FRAMEBUFFER_TARGET"

Layer == [compositionType : CompositionTypes, handle : Handles]
LayerLists == UNION {[1..n -> Layer] : n \in 0..MaxLayers}

\* A call in progress: the screen, the layers SetLayers chose, the handles
\* given to PostFrameBufferTarget, the calls made on gralloc and on the
\* screen, in order, and the value returned.
Call(fn, layers) ==
  [fn |-> fn, layers |-> layers, pre |-> screen, screen |-> screen,
   posted |-> <<>>, handles |-> <<>>, steps |-> <<>>, ret |-> 0]

Did(c, step) == [c EXCEPT !.steps = Append(@, step)]
Return(c, r) == [c EXCEPT !.ret = r]

\* screen_view_->AcquireNextBuffer(display_number)
AcquireNextBuffer(c) ==
  [Did(c, "acquire") EXCEPT !.screen.acquires = @ + 1,
                            !.screen.acquired = TRUE]

\* memcpy(frame_buffer, gralloc_buffer, frame_buffer_size)
Memcpy(c) == Did(c, "copy")

\* screen_view_->PresentAcquiredBuffer(display_number)
PresentAcquiredBuffer(c) ==
  [Did(c, "present") EXCEPT !.screen.presents = @ + 1,
                            !.screen.acquired = FALSE]

PostFrameBufferTarget(c, h) ==
  LET c1 == Did([c EXCEPT !.handles = Append(@, h)], "import")
  IN IF h = "no_import" THEN Return(c1, 0 - 1) ELSE
  LET c2 == Did(c1, "lock")
  IN IF h = "no_lock" THEN Return(c2, 0 - 1) ELSE
  LET c3 == Did(c2, "get")
  IN IF h = "no_get" THEN Return(c3, 0 - 1) ELSE
  Return(PresentAcquiredBuffer(Memcpy(AcquireNextBuffer(c3))), 0)

RECURSIVE SetLayersPostsEvery(_, _, _)
\* A slip: the result of the post is kept and the loop goes on.
SetLayersPostsEvery(k, layers, c) ==
  IF k > Len(layers) THEN (IF c.posted = <<>> THEN Return(c, 0 - 1) ELSE c)
  ELSE IF IS_TARGET_FRAMEBUFFER(layers[k].compositionType)
       THEN SetLayersPostsEvery(k + 1, layers,
              PostFrameBufferTarget([c EXCEPT !.posted = Append(@, k)],
                                    layers[k].handle))
       ELSE SetLayersPostsEvery(k + 1, layers, c)

RECURSIVE SetLayersLoop(_, _, _)
\* for (idx ...) if (IS_TARGET_FRAMEBUFFER(...)) return Post...; return -1;
SetLayersLoop(k, layers, c) ==
  IF k > Len(layers) THEN Return(c, 0 - 1)
  ELSE IF IS_TARGET_FRAMEBUFFER(layers[k].compositionType)
       THEN PostFrameBufferTarget([c EXCEPT !.posted = Append(@, k)],
                                  layers[k].handle)
       ELSE SetLayersLoop(k + 1, layers, c)

\* The composer after a call: the screen as the call left it, and the record
\* of the call.
Called(c) ==
  /\ calls' = calls + 1
  /\ screen' = c.screen
  /\ lastCall' = [fn |-> c.fn, layers |-> c.layers, pre |-> c.pre,
                  posted |-> c.posted, handles |-> c.handles,
                  steps |-> c.steps, ret |-> c.ret]
  /\ UNCHANGED <<launchVars, bridgeVars, frontVars>>

PostFrameBufferTargetCall ==
  /\ calls < MaxCalls
  /\ \E h \in Handles :
       Called(PostFrameBufferTarget(Call("PostFrameBufferTarget", <<>>), h))

SetLayers ==
  /\ calls < MaxCalls
  /\ \E layers \in LayerLists :
       Called(SetLayersLoop(1, layers, Call("SetLayers", layers)))

ComposerStart == LauncherAside /\ BridgeIdle /\ FrontendIdle /\ ComposerInit

ComposerNext ==
  \/ PostFrameBufferTargetCall
  \/ SetLayers

SpecComposer == ComposerStart /\ [][ComposerNext]_vars

Count(step) == Len(SelectSeq(lastCall.steps, LAMBDA x : x = step))

Targets(layers) ==
  {i \in 1..Len(layers) : IS_TARGET_FRAMEBUFFER(layers[i].compositionType)}

FirstTarget(layers) ==
  CHOOSE i \in Targets(layers) : \A j \in Targets(layers) : i <= j

FullCycle == <<"import", "lock", "get", "acquire", "copy", "present">>

\* C28: a post returns -1 with no acquire and no present when Import, Lock
\* or Get fails, and otherwise makes acquire, copy, present once each in that
\* order and returns 0; presents equal acquires after every call; SetLayers
\* posts the first framebuffer-target layer and nothing else, and returns -1
\* without a call on gralloc or the screen when no layer is such a target.
C28_PostOrNothing ==
  /\ screen.presents = screen.acquires
  /\ ~screen.acquired
  /\ lastCall.fn # "none" =>
       /\ lastCall.ret \in {0, 0 - 1}
       /\ screen.acquires = lastCall.pre.acquires + Count("acquire")
       /\ screen.presents = lastCall.pre.presents + Count("present")
       /\ lastCall.ret = 0 - 1 => (Count("acquire") = 0 /\ Count("present") = 0)
       /\ lastCall.ret = 0 => lastCall.steps = FullCycle
       /\ Len(lastCall.handles) <= 1
       /\ lastCall.fn = "PostFrameBufferTarget" => Len(lastCall.handles) = 1
       /\ lastCall.handles # <<>> =>
            /\ (lastCall.ret = 0) <=> (lastCall.handles[1] = "good")
            /\ lastCall.handles[1] = "no_import" =>
                 lastCall.steps = <<"import">>
            /\ lastCall.handles[1] = "no_lock" =>
                 lastCall.steps = <<"import", "lock">>
            /\ lastCall.handles[1] = "no_get" =>
                 lastCall.steps = <<"import", "lock", "get">>
       /\ lastCall.fn = "SetLayers" =>
            IF Targets(lastCall.layers) = {}
            THEN /\ lastCall.posted = <<>> /\ lastCall.handles = <<>>
                 /\ lastCall.steps = <<>> /\ lastCall.ret = 0 - 1
            ELSE /\ lastCall.posted = <<FirstTarget(lastCall.layers)>>
                 /\ lastCall.handles =
                      <<lastCall.layers[FirstTarget(lastCall.layers)].handle>>

\* C28 witness: SetLayers was given two framebuffer-target layers with good
\* buffers, after an earlier post, and presented one frame.
C28_Witness ==
  /\ lastCall.fn = "SetLayers" /\ lastCall.ret = 0
  /\ Cardinality(Targets(lastCall.layers)) = 2
  /\ \A i \in 1..Len(lastCall.layers) : lastCall.layers[i].handle = "good"
  /\ lastCall.pre.presents = 1 /\ screen.presents = 2

\* The flags of the multi-descriptor services and the fifo each is to get.
Wiring ==
  {<<"bt_connector", "-bt_out=", "bt_fifo_vm.in">>,
   <<"bt_connector", "-bt_in=", "bt_fifo_vm.out">>,
   <<"secure_env", "-keymaster_fd_out=", "keymaster_fifo_vm.in">>,
   <<"secure_env", "-keymaster_fd_in=", "keymaster_fifo_vm.out">>,
   <<"secure_env", "-gatekeeper_fd_out=", "gatekeeper_fifo_vm.in">>,
   <<"secure_env", "-gatekeeper_fd_in=", "gatekeeper_fifo_vm.out">>}

\* The descriptor parameters of a Command: [flag, fd].
DescriptorArgs(c) ==
  {[flag |-> c.args[k][1].s, fd |-> c.args[k][2].fd] :
     k \in {j \in 1..Len(c.args) :
              Len(c.args[j]) = 2 /\ c.args[j][2].fd # NoFd}}

\* What the open descriptors with number n refer to.
ObjectsOf(n) == {x.obj : x \in {y \in fds : y.fd = n}}

\* C29: in every bridge and secure_env Command of the list, each output flag
\* carries a descriptor of the fifo <name>_fifo_vm.in and each input flag one
\* of <name>_fifo_vm.out, the Command has no other descriptor parameter, and
\* no two of its flags refer to the same fifo.
C29_PipeDirections ==
  \A i \in 1..Len(cmds) :
    cmds[i].bin \in {"bt_connector", "secure_env"} =>
      /\ \A w \in Wiring :
           w[1] = cmds[i].bin =>
             \E a \in DescriptorArgs(cmds[i]) :
               a.flag = w[2] /\ ObjectsOf(a.fd) = {w[3]}
      /\ \A a \in DescriptorArgs(cmds[i]) :
           <<cmds[i].bin, a.flag, CHOOSE o \in ObjectsOf(a.fd) : TRUE>>
             \in Wiring
      /\ \A a, b \in DescriptorArgs(cmds[i]) :
           a # b => (a.flag # b.flag /\ ObjectsOf(a.fd) # ObjectsOf(b.fd))

\* C29 witness: the list holds the bridge with two descriptor parameters
\* and secure_env with four.
C29_Witness ==
  \E i, j \in 1..Len(cmds) :
    /\ cmds[i].bin = "bt_connector"
    /\ Cardinality(DescriptorArgs(cmds[i])) = 2
    /\ cmds[j].bin = "secure_env"
    /\ Cardinality(DescriptorArgs(cmds[j])) = 4

====
